---------------------------- MODULE Spec2Model ----------------------------
(***************************************************************************)
(* Model of the slicing / hatching core of obpcut.                         *)
(*                                                                         *)
(* Pure functions of the program are operators, applied by the actions of  *)
(* one specification per family of functions:  call  holds the arguments   *)
(* of the invocation, ret its outcome.  The threads of the application     *)
(* (UI thread and workers) are the actions of SpecApp over the other       *)
(* variables, which stay as constructed in the function families.          *)
(*                                                                         *)
(* Lengths are exact integers.  Each family states its unit of length; the *)
(* program's tolerances are expressed in that unit.                        *)
(***************************************************************************)
EXTENDS Integers, Sequences, FiniteSets, TLC

VARIABLES
    call,         \* arguments of the invocation under check: [fn |-> ..., ...]
    ret,          \* NotRun, or the outcome [by |-> implementation, value |-> ...]
    workers,      \* the worker threads created so far, in order of creation
    ui_events,    \* signals of workers queued for delivery on the UI thread
    main_window,  \* MainWindow: slicing_worker, hatching_worker, progress_dialog
    widget,       \* OpenGLWidget: models, view_mode, sliced_layers, hatching
    published,    \* history of the calls of set_sliced_layers / set_hatching_data
    registry      \* HatchingRegistry: _instance, the objects created, plugins made

fn_vars == <<call, ret, registry>>
app_vars == <<workers, ui_events, main_window, widget, published>>
vars == <<call, ret, workers, ui_events, main_window, widget, published, registry>>

NotRun == [by |-> "none"]
\* Python's None, where the value is otherwise a non-empty tuple or list.
None == <<>>

\* No worker (None) / the data of no run (an empty list or dictionary).
NoRun == 0
NoHatching == [layers |-> NoRun, run |-> NoRun, params |-> NoRun]

\* The values of a setting (the layer thickness, the hatching parameters,
\* the transforms of the models): the one it has from construction or
\* loading on, and another one.
DefaultSetting == 1
Settings == {1, 2}

\* OpenGLWidget.__init__, and the default parameters MainWindow.__init__
\* sets through initialize_hatching.
WidgetConstructed ==
    [models |-> 0, view_mode |-> "layout", sliced_layers |-> NoRun,
     hatching_data |-> NoHatching, hatching_enabled |-> FALSE,
     layer_thickness |-> DefaultSetting, hatching_params |-> DefaultSetting,
     transform |-> DefaultSetting]

\* MainWindow.__init__ and OpenGLWidget.__init__: no worker, no dialog, no
\* model, layout mode, nothing sliced or hatched, hatching not enabled.
WindowConstructed ==
    /\ workers = <<>>
    /\ ui_events = <<>>
    /\ main_window = [slicing_worker |-> NoRun, hatching_worker |-> NoRun,
                      progress_dialog |-> "none"]
    /\ widget = WidgetConstructed
    /\ published = <<>>

\* HatchingStrategy values, and classes handed to register: two subclasses
\* of HatchingPlugin and a class that is none.
Strategies == {"lines", "spiral"}
PluginClasses == {"LineHatchingPlugin", "TestPlugin"}
NotAPluginClass == "object"

\* No registry object (None).
NoObject == 0

\* The class HatchingRegistry after its body has run: _instance is None.
\* objects[i] holds the attributes of the i-th HatchingRegistry object
\* created, instances counts the plugin objects made by get_plugin.
RegistryDefined == [_instance |-> NoObject, objects |-> <<>>, instances |-> 0]

\* A __new__ that makes a new object on every call.
HatchingRegistry_new_object(reg) ==
    [reg EXCEPT !._instance = Len(reg.objects) + 1,
                !.objects = Append(@, [_plugins |-> <<>>])]

\* HatchingRegistry.__new__; the object returned is _instance afterwards.
HatchingRegistry_new(reg) ==
    IF reg._instance = NoObject
    THEN [reg EXCEPT !._instance = Len(reg.objects) + 1,
                     !.objects = Append(@, [_plugins |-> <<>>])]
    ELSE reg

\* issubclass(plugin_class, HatchingPlugin)
issubclass_HatchingPlugin(plugin_class) == plugin_class \in PluginClasses

\* HatchingRegistry.register, for a plugin_class that passes the test
register(reg, self, strategy, plugin_class) ==
    LET plugins == reg.objects[self]._plugins
    IN  [reg EXCEPT !.objects[self]._plugins =
            [s \in DOMAIN plugins \cup {strategy} |->
                IF s = strategy THEN plugin_class ELSE plugins[s]]]

\* HatchingRegistry.unregister
unregister(reg, self, strategy) ==
    LET plugins == reg.objects[self]._plugins
    IN  IF strategy \in DOMAIN plugins
        THEN [reg EXCEPT !.objects[self]._plugins =
                 [s \in DOMAIN plugins \ {strategy} |-> plugins[s]]]
        ELSE reg

\* HatchingRegistry.clear
clear(reg, self) == [reg EXCEPT !.objects[self]._plugins = <<>>]

\* HatchingRegistry.is_registered
is_registered(reg, self, strategy) == strategy \in DOMAIN reg.objects[self]._plugins

\* HatchingRegistry.get_plugin: the registry after the call and the value
\* returned, None or the plugin object just made.
get_plugin(reg, self, strategy) ==
    LET plugins == reg.objects[self]._plugins
    IN  IF strategy \in DOMAIN plugins
        THEN [reg |-> [reg EXCEPT !.instances = @ + 1],
              value |-> << [class |-> plugins[strategy], id |-> reg.instances + 1] >>]
        ELSE [reg |-> reg, value |-> None]

\* The registry once the package hatching is imported: registry =
\* HatchingRegistry() and the built-in plugin registered.
RegistryImported ==
    LET reg == HatchingRegistry_new(RegistryDefined)
    IN  register(reg, reg._instance, "lines", "LineHatchingPlugin")

\* The application after start-up.
AppConstructed ==
    /\ WindowConstructed
    /\ registry = RegistryImported

---------------------------------------------------------------------------
(* Arithmetic helpers: Python's abs, round (half to even), tuple order.     *)

Abs(x) == IF x < 0 THEN -x ELSE x

\* Python round(n / d) for d > 0: nearest integer, ties to the even one.
RoundHalfEven(n, d) ==
    LET q == n \div d
        r == n % d
    IN  IF 2 * r < d THEN q
        ELSE IF 2 * r > d THEN q + 1
        ELSE IF q % 2 = 0 THEN q ELSE q + 1

\* Python's < on tuples of numbers of equal length.
LexLess(a, b) ==
    \E i \in 1..Len(a) :
        /\ a[i] < b[i]
        /\ \A j \in 1..(i - 1) : a[j] = b[j]

---------------------------------------------------------------------------
(* SectionGrouper.  Unit of length: 1e-6 mm.                               *)
(* A segment is <<x1, z1, x2, z2>>; an outline is a sequence of segments;  *)
(* a layer is [z_height, layer_index, segments].                           *)

\* tolerance=0.01 (mm) of OpenGLWidget.outlines_are_equal / points_equal
WidgetTolerance == 10000
\* tolerance=1e-6 (mm) of SlicingWorker._outlines_are_equal
WorkerTolerance == 1

points_equal(p1, p2, tolerance) ==
    /\ Abs(p1[1] - p2[1]) < tolerance
    /\ Abs(p1[2] - p2[2]) < tolerance

\* segment_key of outlines_are_equal: smaller endpoint first, then rounded.
segment_key(seg, tolerance) ==
    LET swap == LexLess(<<seg[3], seg[4]>>, <<seg[1], seg[2]>>)
        x1 == IF swap THEN seg[3] ELSE seg[1]
        z1 == IF swap THEN seg[4] ELSE seg[2]
        x2 == IF swap THEN seg[1] ELSE seg[3]
        z2 == IF swap THEN seg[2] ELSE seg[4]
    IN  <<RoundHalfEven(x1, tolerance), RoundHalfEven(z1, tolerance),
          RoundHalfEven(x2, tolerance), RoundHalfEven(z2, tolerance)>>

\* One step of Python's stable sorted(..., key=segment_key): s goes after
\* every element whose key is not greater than its own.
InsertByKey(sorted, s, tolerance) ==
    LET k == Cardinality({i \in 1..Len(sorted) :
                 ~LexLess(segment_key(s, tolerance),
                          segment_key(sorted[i], tolerance))})
    IN  SubSeq(sorted, 1, k) \o <<s>> \o SubSeq(sorted, k + 1, Len(sorted))

RECURSIVE SortedByKey(_, _)
SortedByKey(segments, tolerance) ==
    IF segments = <<>> THEN <<>>
    ELSE InsertByKey(SortedByKey(SubSeq(segments, 1, Len(segments) - 1), tolerance),
                     segments[Len(segments)], tolerance)

\* The comparison loop of outlines_are_equal over the two sorted lists.
SegmentsMatch(seg1, seg2, tolerance) ==
    \/ /\ points_equal(<<seg1[1], seg1[2]>>, <<seg2[1], seg2[2]>>, tolerance)
       /\ points_equal(<<seg1[3], seg1[4]>>, <<seg2[3], seg2[4]>>, tolerance)
    \/ /\ points_equal(<<seg1[1], seg1[2]>>, <<seg2[3], seg2[4]>>, tolerance)
       /\ points_equal(<<seg1[3], seg1[4]>>, <<seg2[1], seg2[2]>>, tolerance)

\* OpenGLWidget.outlines_are_equal
outlines_are_equal(segments1, segments2) ==
    IF Len(segments1) # Len(segments2) THEN FALSE
    ELSE IF Len(segments1) = 0 THEN TRUE
    ELSE LET sorted_seg1 == SortedByKey(segments1, WidgetTolerance)
             sorted_seg2 == SortedByKey(segments2, WidgetTolerance)
         IN  \A i \in 1..Len(segments1) :
                 SegmentsMatch(sorted_seg1[i], sorted_seg2[i], WidgetTolerance)

\* SlicingWorker._outlines_are_equal: position-wise comparison of the lists.
Worker_outlines_are_equal(segments1, segments2) ==
    IF Len(segments1) # Len(segments2) THEN FALSE
    ELSE IF Len(segments1) = 0 THEN TRUE
    ELSE \A i \in 1..Len(segments1) :
             ~ \E c \in 1..4 :
                   Abs(segments1[i][c] - segments2[i][c]) > WorkerTolerance

\* The section opened at (0-based) layer i.
NewSection(all_layers, i) ==
    [start_layer |-> i, end_layer |-> i,
     z_start |-> all_layers[i + 1].z_height,
     z_end |-> all_layers[i + 1].z_height,
     segments |-> all_layers[i + 1].segments,
     layer_count |-> 1]

ExtendSection(current_section, all_layers, i) ==
    [current_section EXCEPT !.end_layer = i,
                            !.z_end = all_layers[i + 1].z_height,
                            !.layer_count = @ + 1]

\* for i in range(i, len(all_layers)) of OpenGLWidget.group_layers_into_sections
RECURSIVE GroupLoop(_, _, _, _)
GroupLoop(all_layers, i, sections, current_section) ==
    IF i >= Len(all_layers) THEN Append(sections, current_section)
    ELSE IF outlines_are_equal(all_layers[i + 1].segments, all_layers[i].segments)
         THEN GroupLoop(all_layers, i + 1, sections,
                        ExtendSection(current_section, all_layers, i))
         ELSE GroupLoop(all_layers, i + 1, Append(sections, current_section),
                        NewSection(all_layers, i))

\* A grouping loop that starts at layer 2 instead of layer 1.
group_layers_skip_first(all_layers) ==
    IF all_layers = <<>> THEN <<>>
    ELSE GroupLoop(all_layers, 2, <<>>, NewSection(all_layers, 0))

\* OpenGLWidget.group_layers_into_sections
group_layers_into_sections(all_layers) ==
    IF all_layers = <<>> THEN <<>>
    ELSE GroupLoop(all_layers, 1, <<>>, NewSection(all_layers, 0))

\* for i in range(i, len(all_layers)) of SlicingWorker._group_layers_into_sections
RECURSIVE Worker_GroupLoop(_, _, _, _)
Worker_GroupLoop(all_layers, i, sections, current_section) ==
    IF i >= Len(all_layers) THEN Append(sections, current_section)
    ELSE IF Worker_outlines_are_equal(all_layers[i + 1].segments,
                                      all_layers[i].segments)
         THEN Worker_GroupLoop(all_layers, i + 1, sections,
                               ExtendSection(current_section, all_layers, i))
         ELSE Worker_GroupLoop(all_layers, i + 1,
                               Append(sections, current_section),
                               NewSection(all_layers, i))

\* SlicingWorker._group_layers_into_sections
Worker_group_layers_into_sections(all_layers) ==
    IF all_layers = <<>> THEN <<>>
    ELSE Worker_GroupLoop(all_layers, 1, <<>>, NewSection(all_layers, 0))

---------------------------------------------------------------------------
(* Inputs of the SectionGrouper family.                                    *)

MaxLayers == 4
MaxSegs == 2

\* Segments of a 40 um square and neighbours of them: a flipped one, ones
\* moved by less than the widget's tolerance, and one on a rounding tie.
SegPool ==
    { <<0, 0, 40000, 0>>, <<40000, 0, 0, 0>>,
      <<40000, 0, 40000, 40000>>,
      <<6000, 0, 40000, 0>>, <<12000, 0, 40000, 0>>,
      <<5000, 0, 40000, 0>>, <<-5000, 0, 40000, 0>> }

SegLists == UNION { [1..n -> SegPool] : n \in 0..MaxSegs }

\* Outlines a slice of a part can show on consecutive layers: empty, the
\* same segments in another order or orientation, a slightly moved wall.
OutlinePool ==
    { <<>>,
      << <<0, 0, 40000, 0>>, <<40000, 0, 40000, 40000>> >>,
      << <<40000, 0, 40000, 40000>>, <<0, 0, 40000, 0>> >>,
      << <<40000, 0, 0, 0>>, <<40000, 0, 40000, 40000>> >>,
      << <<6000, 0, 40000, 0>>, <<40000, 0, 40000, 40000>> >>,
      << <<12000, 0, 40000, 0>>, <<40000, 0, 40000, 40000>> >>,
      << <<0, 0, 40000, 0>> >> }

\* all_layers as slice_model builds it: layer i at the i-th plane height
\* (z_height counted in half layer thicknesses above the model's bottom).
MakeLayers(outlines) ==
    [i \in 1..Len(outlines) |->
        [z_height |-> 2 * (i - 1) + 1, layer_index |-> i - 1,
         segments |-> outlines[i]]]

LayerLists ==
    { MakeLayers(o) : o \in UNION { [1..n -> OutlinePool] : n \in 0..MaxLayers } }

FlipSegment(seg) == <<seg[3], seg[4], seg[1], seg[2]>>

\* The lists made from A by permuting its segments and swapping the two
\* endpoints of any of them.
Variants(A) ==
    LET n == Len(A)
        perms == { p \in [1..n -> 1..n] : \A i, j \in 1..n : p[i] = p[j] => i = j }
    IN  { [i \in 1..n |-> IF i \in flipped THEN FlipSegment(A[p[i]]) ELSE A[p[i]]] :
              p \in perms, flipped \in SUBSET (1..n) }

InitGroup ==
    /\ call \in [fn : {"group"}, all_layers : LayerLists]
    /\ ret = NotRun
    /\ AppConstructed

GroupWidget ==
    /\ call.fn = "group"
    /\ ret = NotRun
    /\ ret' = [by |-> "widget", value |-> group_layers_into_sections(call.all_layers)]
    /\ UNCHANGED <<call, registry, app_vars>>

GroupWorker ==
    /\ call.fn = "group"
    /\ ret = NotRun
    /\ ret' = [by |-> "worker",
               value |-> Worker_group_layers_into_sections(call.all_layers)]
    /\ UNCHANGED <<call, registry, app_vars>>

NextGroup == GroupWidget \/ GroupWorker

SpecGroup == InitGroup /\ [][NextGroup]_vars

\* The equality test the implementation that ran uses.
EqualBy(by, a, b) ==
    IF by = "widget" THEN outlines_are_equal(a, b)
    ELSE Worker_outlines_are_equal(a, b)

\* C1: the sections returned for n layers are the maximal runs of layers
\* each equal to its predecessor: the first starts at 0, the last ends at
\* n-1, each starts right after the one before, layer_count is end - start
\* + 1, and a section starts at layer i exactly when layer i differs from
\* layer i-1; no layers give no sections.
C1_SectionsAreMaximalRuns ==
    (call.fn = "group" /\ ret # NotRun) =>
        LET L == call.all_layers
            n == Len(L)
            S == ret.value
        IN  IF n = 0 THEN S = <<>>
            ELSE /\ Len(S) >= 1
                 /\ S[1].start_layer = 0
                 /\ S[Len(S)].end_layer = n - 1
                 /\ \A k \in 1..Len(S) :
                        /\ S[k].start_layer <= S[k].end_layer
                        /\ S[k].layer_count = S[k].end_layer - S[k].start_layer + 1
                        /\ S[k].segments = L[S[k].start_layer + 1].segments
                 /\ \A k \in 1..(Len(S) - 1) :
                        S[k + 1].start_layer = S[k].end_layer + 1
                 /\ \A i \in 1..(n - 1) :
                        (\E k \in 1..Len(S) : S[k].start_layer = i)
                            <=> ~EqualBy(ret.by, L[i + 1].segments, L[i].segments)

\* The widget groups four layers into two sections of two layers each, the
\* first one over two layers that list the same segments in another order.
C1_Witness ==
    /\ call.fn = "group"
    /\ ret # NotRun
    /\ ret.by = "widget"
    /\ Len(call.all_layers) = 4
    /\ Len(ret.value) = 2
    /\ ret.value[1].end_layer = 1
    /\ ret.value[2].layer_count = 2
    /\ call.all_layers[1].segments # <<>>
    /\ call.all_layers[1].segments # call.all_layers[2].segments
    /\ call.all_layers[3].segments # <<>>

\* C13: every layer of a returned section has an outline equal, by the
\* test of the implementation that ran, to the segments the section stores.
C13_LayersEqualRepresentative ==
    (call.fn = "group" /\ ret # NotRun) =>
        \A k \in 1..Len(ret.value) :
            \A i \in ret.value[k].start_layer..ret.value[k].end_layer :
                EqualBy(ret.by, call.all_layers[i + 1].segments,
                        ret.value[k].segments)

\* The grouping the implementation that ran computes.
GroupBy(by, all_layers) ==
    IF by = "widget" THEN group_layers_into_sections(all_layers)
    ELSE Worker_group_layers_into_sections(all_layers)

\* C14: the layer list made of the representatives of the returned
\* sections, grouped again by the same implementation, gives one section
\* of one layer for each representative.
C14_GroupingIsIdempotent ==
    (call.fn = "group" /\ ret # NotRun) =>
        LET S == ret.value
            again == GroupBy(ret.by,
                         MakeLayers([k \in 1..Len(S) |-> S[k].segments]))
        IN  /\ Len(again) = Len(S)
            /\ \A k \in 1..Len(again) :
                   /\ again[k].start_layer = k - 1
                   /\ again[k].end_layer = k - 1
                   /\ again[k].segments = S[k].segments

---------------------------------------------------------------------------
(* The outline equality test on its own.                                   *)

InitOutline ==
    /\ call \in [fn : {"outlines_equal"}, segments1 : SegLists, segments2 : SegLists]
    /\ ret = NotRun
    /\ AppConstructed

OutlinesEqualWidget ==
    /\ call.fn = "outlines_equal"
    /\ ret = NotRun
    /\ ret' = [by |-> "widget",
               value |-> outlines_are_equal(call.segments1, call.segments2)]
    /\ UNCHANGED <<call, registry, app_vars>>

OutlinesEqualWorker ==
    /\ call.fn = "outlines_equal"
    /\ ret = NotRun
    /\ ret' = [by |-> "worker",
               value |-> Worker_outlines_are_equal(call.segments1, call.segments2)]
    /\ UNCHANGED <<call, registry, app_vars>>

NextOutline == OutlinesEqualWidget \/ OutlinesEqualWorker

SpecOutline == InitOutline /\ [][NextOutline]_vars

\* C2: the result of the outline equality test (widget's and worker's) is
\* unchanged when the segments of either list are permuted and when the
\* endpoints of any segment are swapped.
C2_OrderOrientationIndependent ==
    (call.fn = "outlines_equal" /\ ret # NotRun) =>
        /\ \A A2 \in Variants(call.segments1) :
               EqualBy(ret.by, A2, call.segments2) = ret.value
        /\ \A B2 \in Variants(call.segments2) :
               EqualBy(ret.by, call.segments1, B2) = ret.value

\* The same statement for the worker's test alone, and for the widget's.
C2_WorkerIndependent ==
    ret.by = "worker" => C2_OrderOrientationIndependent

C2_WidgetIndependent ==
    ret.by = "widget" => C2_OrderOrientationIndependent

---------------------------------------------------------------------------
(* MeshTransformPipeline.  Unit of length: 1 mm; angles in degrees, on the *)
(* quarter turns, where sine and cosine are exact.                         *)
(* model_data is [bounds, center, position, rotation, scale].              *)

\* OpenGLWidget.BUILD_PLATE_TOP_Y = BUILD_PLATE_THICKNESS / 2 (mm)
BUILD_PLATE_TOP_Y == 5

Cos(deg) == CASE deg % 360 = 0 -> 1
              [] deg % 360 = 90 -> 0
              [] deg % 360 = 180 -> -1
              [] deg % 360 = 270 -> 0

Sin(deg) == CASE deg % 360 = 0 -> 0
              [] deg % 360 = 90 -> 1
              [] deg % 360 = 180 -> 0
              [] deg % 360 = 270 -> -1

\* The three axis rotations, as transform_vertex writes them and as the
\* matrices of glRotatef about (1,0,0), (0,1,0) and (0,0,1) act.
RotateX(v, deg) ==
    <<v[1], v[2] * Cos(deg) - v[3] * Sin(deg), v[2] * Sin(deg) + v[3] * Cos(deg)>>

RotateY(v, deg) ==
    <<v[1] * Cos(deg) + v[3] * Sin(deg), v[2], -v[1] * Sin(deg) + v[3] * Cos(deg)>>

RotateZ(v, deg) ==
    <<v[1] * Cos(deg) - v[2] * Sin(deg), v[1] * Sin(deg) + v[2] * Cos(deg), v[3]>>

VAdd(a, b) == <<a[1] + b[1], a[2] + b[2], a[3] + b[3]>>
VSub(a, b) == <<a[1] - b[1], a[2] - b[2], a[3] - b[3]>>
VMul(a, b) == <<a[1] * b[1], a[2] * b[2], a[3] * b[3]>>

\* The pivot of scale and rotation: the geometric centre above the plate.
GeometricCenter(model_data) ==
    <<model_data.center[1],
      (model_data.bounds[5] - model_data.bounds[2]) \div 2,
      model_data.center[3]>>

\* OpenGLWidget.transform_vertex
transform_vertex(vertex, model_data) ==
    IF model_data.bounds = None THEN vertex
    ELSE LET min_y == model_data.bounds[2]
             c == GeometricCenter(model_data)
             \* Step 1: centre in X and Z, bottom to Y = 0
             v1 == <<vertex[1] - model_data.center[1], vertex[2] - min_y,
                     vertex[3] - model_data.center[3]>>
             \* Step 2: scale about the geometric centre
             v2 == VAdd(VMul(VSub(v1, c), model_data.scale), c)
             \* Step 3: rotate about the geometric centre, Z then Y then X
             r0 == VSub(v2, c)
             rz == IF model_data.rotation[3] # 0
                   THEN RotateZ(r0, model_data.rotation[3]) ELSE r0
             ry == IF model_data.rotation[2] # 0
                   THEN RotateY(rz, model_data.rotation[2]) ELSE rz
             rx == IF model_data.rotation[1] # 0
                   THEN RotateX(ry, model_data.rotation[1]) ELSE ry
             v3 == VAdd(rx, c)
         \* Step 4: translate by position
         IN  VAdd(v3, model_data.position)

\* The matrix calls of draw_cad_model between glPushMatrix and the drawing
\* of the mesh, in the order they are made.
draw_cad_model_calls(model_data) ==
    LET c == GeometricCenter(model_data)
        neg(v) == <<-v[1], -v[2], -v[3]>>
    IN  << [gl |-> "Translate", v |-> model_data.position] >>
        \o (IF model_data.bounds # None
            THEN << [gl |-> "Translate", v |-> c],
                    [gl |-> "RotateZ", deg |-> model_data.rotation[3]],
                    [gl |-> "RotateY", deg |-> model_data.rotation[2]],
                    [gl |-> "RotateX", deg |-> model_data.rotation[1]],
                    [gl |-> "Translate", v |-> neg(c)] >>
            ELSE <<>>)
        \o (IF model_data.scale # <<1, 1, 1>> /\ model_data.bounds # None
            THEN << [gl |-> "Translate", v |-> c],
                    [gl |-> "Scale", v |-> model_data.scale],
                    [gl |-> "Translate", v |-> neg(c)] >>
            ELSE <<>>)
        \o (IF model_data.bounds # None
            THEN << [gl |-> "Translate",
                     v |-> <<-model_data.center[1],
                             BUILD_PLATE_TOP_Y - model_data.bounds[2],
                             -model_data.center[3]>>] >>
            ELSE << [gl |-> "Translate",
                     v |-> <<-model_data.center[1],
                             BUILD_PLATE_TOP_Y - model_data.center[2],
                             -model_data.center[3]>>] >>)

GLApplyOne(c, v) ==
    CASE c.gl = "Translate" -> VAdd(v, c.v)
      [] c.gl = "Scale" -> VMul(v, c.v)
      [] c.gl = "RotateX" -> RotateX(v, c.deg)
      [] c.gl = "RotateY" -> RotateY(v, c.deg)
      [] c.gl = "RotateZ" -> RotateZ(v, c.deg)

\* OpenGL multiplies the current matrix on the right by each call's matrix,
\* so the call made last acts on the vertex first.
RECURSIVE GLApply(_, _)
GLApply(calls, v) ==
    IF calls = <<>> THEN v
    ELSE GLApply(SubSeq(calls, 1, Len(calls) - 1), GLApplyOne(calls[Len(calls)], v))

\* Where draw_cad_model shows a vertex of the mesh.
draw_cad_model(vertex, model_data) ==
    GLApply(draw_cad_model_calls(model_data), vertex)

\* CADModel.get_center
get_center(bounds) ==
    <<(bounds[1] + bounds[4]) \div 2, (bounds[2] + bounds[5]) \div 2,
      (bounds[3] + bounds[6]) \div 2>>

\* Bounding boxes <<min_x, min_y, min_z, max_x, max_y, max_z>> with an
\* integral centre and half height.
BoundsPool == { <<0, 0, 0, 2, 2, 2>>, <<-2, 0, 0, 2, 4, 2>>, <<2, 2, 2, 6, 4, 4>> }

QuarterTurns == {0, 90, 180}

ModelDataPool ==
    { [bounds |-> b, center |-> get_center(b), position |-> p,
       rotation |-> r, scale |-> s] :
          b \in BoundsPool,
          p \in { <<0, 0, 0>>, <<1, 2, 3>> },
          r \in QuarterTurns \X QuarterTurns \X QuarterTurns,
          s \in { <<1, 1, 1>>, <<2, 1, 1>>, <<1, 2, 3>> } }

\* The corners of the bounding box.
Corners(b) == { <<x, y, z>> : x \in {b[1], b[4]}, y \in {b[2], b[5]}, z \in {b[3], b[6]} }

InitTransform ==
    /\ \E m \in ModelDataPool :
           call \in [fn : {"transform"}, model_data : {m}, vertex : Corners(m.bounds)]
    /\ ret = NotRun
    /\ AppConstructed

TransformVertex ==
    /\ call.fn = "transform"
    /\ ret = NotRun
    /\ ret' = [by |-> "slicer", value |-> transform_vertex(call.vertex, call.model_data)]
    /\ UNCHANGED <<call, registry, app_vars>>

DrawCadModel ==
    /\ call.fn = "transform"
    /\ ret = NotRun
    /\ ret' = [by |-> "renderer", value |-> draw_cad_model(call.vertex, call.model_data)]
    /\ UNCHANGED <<call, registry, app_vars>>

NextTransform == TransformVertex \/ DrawCadModel

SpecTransform == InitTransform /\ [][NextTransform]_vars

\* C3: the world position transform_vertex computes for slicing is the
\* position at which draw_cad_model displays the vertex, for every vertex,
\* bounding box and transform.
C3_SlicerMatchesRenderer ==
    (call.fn = "transform" /\ ret # NotRun /\ ret.by = "slicer") =>
        ret.value = draw_cad_model(call.vertex, call.model_data)

---------------------------------------------------------------------------
(* PlaneSlicer.  Unit of length: 1e-6 mm.  A vertex is <<x, y, z>> with y  *)
(* the height; an intersection point is the exact rational point           *)
(* (x / d, z / d) kept as [x, z, d] with d > 0.                            *)

\* abs(y1 - y0) > 1e-6 (mm) of OpenGLWidget.intersect_triangle_plane
WidgetEdgeEps == 1
\* abs(p[0] - existing[0]) < 1e-6 (mm), the widget's duplicate test
WidgetDuplicateEps == 1
\* abs(y1 - y0) > 1e-10 (mm) of SlicingWorker._intersect_triangle_plane:
\* 1e-10 mm is one part in WorkerEdgeEpsParts of the unit
WorkerEdgeEpsParts == 10000

\* (y0 <= plane <= y1) or (y1 <= plane <= y0)
Straddles(ya, yb, plane) ==
    \/ ya <= plane /\ plane <= yb
    \/ yb <= plane /\ plane <= ya

\* t = (plane - ya) / (yb - ya);  x = xa + t * (xb - xa), likewise z.
Interpolate(va, vb, plane) ==
    LET dy == vb[2] - va[2]
        sgn == IF dy < 0 THEN -1 ELSE 1
    IN  [x |-> sgn * (va[1] * dy + (plane - va[2]) * (vb[1] - va[1])),
         z |-> sgn * (va[3] * dy + (plane - va[2]) * (vb[3] - va[3])),
         d |-> sgn * dy]

\* The points the widget collects from the edges v0-v1, v1-v2, v2-v0.
WidgetEdgePoints(v0, v1, v2, z_height) ==
    LET edge(va, vb) ==
            IF Straddles(va[2], vb[2], z_height) /\ Abs(vb[2] - va[2]) > WidgetEdgeEps
            THEN <<Interpolate(va, vb, z_height)>> ELSE <<>>
    IN  edge(v0, v1) \o edge(v1, v2) \o edge(v2, v0)

\* abs(p[0] - existing[0]) < 1e-6 and abs(p[1] - existing[1]) < 1e-6
IsDuplicatePoint(p, existing) ==
    /\ Abs(p.x * existing.d - existing.x * p.d) < WidgetDuplicateEps * p.d * existing.d
    /\ Abs(p.z * existing.d - existing.z * p.d) < WidgetDuplicateEps * p.d * existing.d

\* The "Remove duplicates" loop.
RECURSIVE UniquePoints(_, _)
UniquePoints(intersections, unique_intersections) ==
    IF intersections = <<>> THEN unique_intersections
    ELSE LET p == Head(intersections)
         IN  IF \E k \in 1..Len(unique_intersections) :
                    IsDuplicatePoint(p, unique_intersections[k])
             THEN UniquePoints(Tail(intersections), unique_intersections)
             ELSE UniquePoints(Tail(intersections), Append(unique_intersections, p))

\* OpenGLWidget.intersect_triangle_plane
intersect_triangle_plane(v0, v1, v2, z_height) ==
    LET unique_intersections ==
            UniquePoints(WidgetEdgePoints(v0, v1, v2, z_height), <<>>)
    IN  IF Len(unique_intersections) = 2
        THEN <<unique_intersections[1], unique_intersections[2]>>
        ELSE None

\* The points the worker collects: the same edge test with its own epsilon.
WorkerEdgePoints(v0, v1, v2, plane_y) ==
    LET edge(va, vb) ==
            IF /\ Straddles(va[2], vb[2], plane_y)
               /\ Abs(vb[2] - va[2]) * WorkerEdgeEpsParts > 1
            THEN <<Interpolate(va, vb, plane_y)>> ELSE <<>>
    IN  edge(v0, v1) \o edge(v1, v2) \o edge(v2, v0)

\* SlicingWorker._intersect_triangle_plane: no duplicate removal.
Worker_intersect_triangle_plane(v0, v1, v2, plane_y) ==
    LET edges_cross == WorkerEdgePoints(v0, v1, v2, plane_y)
    IN  IF Len(edges_cross) = 2
        THEN <<edges_cross[1], edges_cross[2]>>
        ELSE None

\* World-space vertices: heights on, next to and away from the planes.
SliceHeights == {0, 1, 5, 10}
SlicePlaneCoords == {0, 10}
SliceVertices == SlicePlaneCoords \X SliceHeights \X SlicePlaneCoords
SlicePlanes == {1, 5}

InitSlice ==
    /\ call \in [fn : {"slice"}, v0 : SliceVertices, v1 : SliceVertices,
                 v2 : SliceVertices, plane : SlicePlanes]
    /\ ret = NotRun
    /\ AppConstructed

IntersectWidget ==
    /\ call.fn = "slice"
    /\ ret = NotRun
    /\ ret' = [by |-> "widget",
               value |-> intersect_triangle_plane(call.v0, call.v1, call.v2, call.plane)]
    /\ UNCHANGED <<call, registry, app_vars>>

IntersectWorker ==
    /\ call.fn = "slice"
    /\ ret = NotRun
    /\ ret' = [by |-> "worker",
               value |-> Worker_intersect_triangle_plane(call.v0, call.v1, call.v2,
                                                         call.plane)]
    /\ UNCHANGED <<call, registry, app_vars>>

NextSlice == IntersectWidget \/ IntersectWorker

SpecSlice == InitSlice /\ [][NextSlice]_vars

TriangleHeights == <<call.v0[2], call.v1[2], call.v2[2]>>

\* All three vertices at the plane height.
Coplanar == \A i \in 1..3 : TriangleHeights[i] = call.plane

\* Exactly one vertex at the plane height, the other two strictly on the
\* same side of the plane.
TouchesAtOneVertex ==
    \E i \in 1..3 :
        /\ TriangleHeights[i] = call.plane
        /\ \/ \A j \in (1..3) \ {i} : TriangleHeights[j] > call.plane
           \/ \A j \in (1..3) \ {i} : TriangleHeights[j] < call.plane

\* C4: the slicer (widget's and worker's) returns at most one segment, and
\* none for a triangle lying in the plane or touching it at one vertex only.
C4_NoSegmentForCoplanarOrTouching ==
    (call.fn = "slice" /\ ret # NotRun) =>
        /\ ret.value = None \/ Len(ret.value) = 2
        /\ (Coplanar \/ TouchesAtOneVertex) => ret.value = None

\* The same statement for the widget's slicer alone.
C4_WidgetNoSegment ==
    ret.by = "widget" => C4_NoSegmentForCoplanarOrTouching

---------------------------------------------------------------------------
(* ContourBuilder.  Unit of length: 0.5e-6 mm.  A point is <<x, z>>.       *)
(* The graph (a defaultdict(list), which keeps its keys in insertion       *)
(* order) is a sequence of [key, nbrs] entries.                            *)

\* tolerance = 1e-6 (mm) of segments_to_contours
PointKeyTolerance == 2

\* point_key: round(x / tolerance) * tolerance
point_key(x, z) ==
    <<RoundHalfEven(x, PointKeyTolerance) * PointKeyTolerance,
      RoundHalfEven(z, PointKeyTolerance) * PointKeyTolerance>>

\* graph[p].append(q)
GraphAppend(graph, p, q) ==
    IF \E i \in 1..Len(graph) : graph[i].key = p
    THEN LET i == CHOOSE i \in 1..Len(graph) : graph[i].key = p
         IN  [graph EXCEPT ![i].nbrs = Append(@, q)]
    ELSE Append(graph, [key |-> p, nbrs |-> <<q>>])

\* for seg in segments: graph[p1].append(p2); graph[p2].append(p1)
RECURSIVE BuildGraph(_, _)
BuildGraph(segments, graph) ==
    IF segments = <<>> THEN graph
    ELSE LET seg == Head(segments)
             p1 == point_key(seg[1], seg[2])
             p2 == point_key(seg[3], seg[4])
         IN  BuildGraph(Tail(segments), GraphAppend(GraphAppend(graph, p1, p2), p2, p1))

Neighbors(graph, p) ==
    graph[CHOOSE i \in 1..Len(graph) : graph[i].key = p].nbrs

\* An edge key that keeps the direction of travel.
DirectedEdgeKey(a, b) == <<a, b>>

\* (min(current, neighbor), max(current, neighbor))
EdgeKey(a, b) == IF LexLess(b, a) THEN <<b, a>> ELSE <<a, b>>

\* The while loop of find_loop.  how tells the way it ended: "closed" (return
\* loop), "open" (no unvisited neighbour: return None) or "safety" (the
\* length check: return None).
RECURSIVE FindLoopWalk(_, _, _, _, _, _, _)
FindLoopWalk(graph, n_edges, start_point, loop, current, visited_local, visited_edges) ==
    LET nbrs == Neighbors(graph, current)
        free == { i \in 1..Len(nbrs) : EdgeKey(current, nbrs[i]) \notin visited_local }
    IN  IF free = {}
        THEN [loop |-> None, how |-> "open", visited_edges |-> visited_edges]
        ELSE LET i == CHOOSE i \in free : \A j \in free : i <= j
                 next_point == nbrs[i]
                 edge == EdgeKey(current, next_point)
             IN  IF next_point = start_point
                 THEN [loop |-> loop, how |-> "closed",
                       visited_edges |-> visited_edges \cup {edge}]
                 ELSE IF Len(loop) + 1 > n_edges
                 THEN [loop |-> None, how |-> "safety",
                       visited_edges |-> visited_edges \cup {edge}]
                 ELSE FindLoopWalk(graph, n_edges, start_point,
                                   Append(loop, next_point), next_point,
                                   visited_local \cup {edge},
                                   visited_edges \cup {edge})

\* segments_to_contours.find_loop
find_loop(graph, n_edges, start_point, visited_edges) ==
    FindLoopWalk(graph, n_edges, start_point, <<start_point>>, start_point,
                 {}, visited_edges)

\* "Extract all loops": for point in list(graph.keys()).  walks records how
\* each call of find_loop ended; contours is what the function returns.
RECURSIVE ExtractLoops(_, _, _, _, _, _)
ExtractLoops(graph, n_edges, k, contours, walks, visited_edges) ==
    IF k > Len(graph) THEN [contours |-> contours, walks |-> walks]
    ELSE LET point == graph[k].key
             nbrs == graph[k].nbrs
         IN  IF \E i \in 1..Len(nbrs) : EdgeKey(point, nbrs[i]) \notin visited_edges
             THEN LET w == find_loop(graph, n_edges, point, visited_edges)
                  IN  ExtractLoops(graph, n_edges, k + 1,
                          IF w.loop # None /\ Len(w.loop) >= 3
                          THEN Append(contours, w.loop) ELSE contours,
                          Append(walks, [start |-> point, how |-> w.how]),
                          w.visited_edges)
             ELSE ExtractLoops(graph, n_edges, k + 1, contours, walks, visited_edges)

\* segments_to_contours.  The function has one way out, return contours:
\* it raises nothing and reports nothing, so error is always None.
segments_to_contours(segments) ==
    IF segments = <<>> THEN [contours |-> <<>>, walks |-> <<>>, error |-> None]
    ELSE LET r == ExtractLoops(BuildGraph(segments, <<>>), Len(segments), 1,
                               <<>>, <<>>, {})
         IN  [contours |-> r.contours, walks |-> r.walks, error |-> None]

MaxChainSegs == 3

\* Simple polygons (vertex lists): on the 1e-6 mm grid, off it, and with
\* vertices closer together than the grid's step.
PolygonPool ==
    { << <<0, 0>>, <<8, 0>>, <<0, 8>> >>,
      << <<0, 0>>, <<8, 0>>, <<8, 8>>, <<0, 8>> >>,
      << <<1, 1>>, <<7, 1>>, <<7, 7>>, <<1, 7>> >>,
      << <<0, 0>>, <<1, 0>>, <<0, 1>> >>,
      << <<0, 0>>, <<8, 0>>, <<8, 1>>, <<0, 8>> >> }

\* The edges of a polygon as segments, vertex i to vertex i+1.
EdgesOf(polygon) ==
    [i \in 1..Len(polygon) |->
        LET a == polygon[i]
            b == polygon[(i % Len(polygon)) + 1]
        IN  <<a[1], a[2], b[1], b[2]>>]

ChainPoints == {0, 8} \X {0, 8}
ChainSegs == { <<a[1], a[2], b[1], b[2]>> : a \in ChainPoints, b \in ChainPoints }

\* Segment lists as a slice hands them over: the edges of a polygon in any
\* order and orientation, or (polygon = None) any short list of segments.
ContourCalls ==
    UNION { { [fn |-> "contours", polygon |-> poly, segments |-> segs] :
                  segs \in Variants(EdgesOf(poly)) } : poly \in PolygonPool }
    \cup
    { [fn |-> "contours", polygon |-> None, segments |-> segs] :
          segs \in UNION { [1..n -> ChainSegs] : n \in 0..MaxChainSegs } }

InitContour ==
    /\ call \in ContourCalls
    /\ ret = NotRun
    /\ AppConstructed

SegmentsToContours ==
    /\ call.fn = "contours"
    /\ ret = NotRun
    /\ LET r == segments_to_contours(call.segments)
       IN  ret' = [by |-> "segments_to_contours", value |-> r.contours,
                   walks |-> r.walks, error |-> r.error]
    /\ UNCHANGED <<call, registry, app_vars>>

NextContour == SegmentsToContours

SpecContour == InitContour /\ [][NextContour]_vars

KeysOf(polygon) == [i \in 1..Len(polygon) |-> point_key(polygon[i][1], polygon[i][2])]

\* contour goes once round the cyclic list ring, in either direction.
IsTraversalOf(contour, ring) ==
    LET k == Len(ring)
    IN  /\ Len(contour) = k
        /\ \E o \in 0..(k - 1) :
               \/ \A i \in 1..k : contour[i] = ring[((o + i - 1) % k) + 1]
               \/ \A i \in 1..k : contour[i] = ring[((o + k - i) % k) + 1]

DistinctKeys(polygon) ==
    \A i, j \in 1..Len(polygon) :
        KeysOf(polygon)[i] = KeysOf(polygon)[j] => i = j

\* C5 as stated: the edges of one simple closed polygon with k >= 3 distinct
\* vertices, in any order and orientation, give exactly one contour, which
\* lists each vertex (as its point key) once in polygon-adjacency order.
C5_PolygonGivesOneContour ==
    (call.fn = "contours" /\ ret # NotRun /\ call.polygon # None) =>
        /\ Len(ret.value) = 1
        /\ IsTraversalOf(ret.value[1], KeysOf(call.polygon))

\* C5 amended: the same, for polygons whose vertices have pairwise distinct
\* point keys (no two vertices round to the same point of the 1e-6 mm grid).
C5_DistinctKeysGiveOneContour ==
    (call.fn = "contours" /\ ret # NotRun /\ call.polygon # None
        /\ DistinctKeys(call.polygon)) =>
        /\ Len(ret.value) = 1
        /\ IsTraversalOf(ret.value[1], KeysOf(call.polygon))

\* The off-grid square, its edges listed out of order and one of them
\* reversed, came back as one contour of four points.
C5_Witness ==
    /\ call.fn = "contours"
    /\ ret # NotRun
    /\ call.polygon = << <<1, 1>>, <<7, 1>>, <<7, 7>>, <<1, 7>> >>
    /\ call.segments[1] = <<7, 7, 7, 1>>
    /\ call.segments[2] = <<1, 7, 1, 1>>
    /\ Len(ret.value) = 1
    /\ Len(ret.value[1]) = 4

\* C6: when a walk of find_loop runs out of unvisited edges before it is
\* back at its start (an open chain), the caller is given a
\* geometry-integrity error.
C6_OpenChainIsReported ==
    (call.fn = "contours" /\ ret # NotRun
        /\ \E k \in 1..Len(ret.walks) : ret.walks[k].how = "open") =>
        ret.error # None

---------------------------------------------------------------------------
(* Hatching.  Unit of length: 0.5e-6 mm (that of ContourBuilder); angles   *)
(* in degrees, on the quarter turns; power_level and infill_density in     *)
(* thousandths; speeds in mm/s.                                            *)
(* A point is <<x, y>>.  A hatch line is [start, end, speed, power,        *)
(* layer_index, is_contour].  A Shapely polygon is modelled for contours   *)
(* that are axis-aligned rectangles, as [exterior, holes], each rectangle  *)
(* being its bounds <<minx, miny, maxx, maxy>>.                            *)

\* 1 (full power, full density) in thousandths
PerMille == 1000

HatchLine(start, end, speed, power, layer_index, is_contour) ==
    [start |-> start, end |-> end, speed |-> speed, power |-> power,
     layer_index |-> layer_index, is_contour |-> is_contour]

\* A validate_parameters that leaves infill_density unchecked.
validate_without_density(parameters) ==
    IF parameters.hatch_spacing <= 0 THEN FALSE
    ELSE IF parameters.contour_count < 0 THEN FALSE
    ELSE IF ~(0 <= parameters.power_level /\ parameters.power_level <= PerMille)
    THEN FALSE
    ELSE TRUE

\* HatchingPlugin.validate_parameters
validate_parameters(parameters) ==
    IF parameters.hatch_spacing <= 0 THEN FALSE
    ELSE IF parameters.contour_count < 0 THEN FALSE
    ELSE IF ~(0 <= parameters.power_level /\ parameters.power_level <= PerMille)
    THEN FALSE
    ELSE IF ~(0 <= parameters.infill_density
                /\ parameters.infill_density <= PerMille)
    THEN FALSE
    ELSE TRUE

\* The remainder that keeps the sign of the dividend, as C's fmod does.
get_effective_angle_truncated(base_angle, layer_index, rotation) ==
    LET a == base_angle + layer_index * rotation
    IN  IF a >= 0 THEN a % 180 ELSE -((-a) % 180)

\* HatchingPlugin.get_effective_angle
get_effective_angle(base_angle, layer_index, rotation) ==
    (base_angle + layer_index * rotation) % 180

\* The lines of one contour: point i to point i+1, the last to the first.
ContourLines(contour, parameters, layer_index) ==
    [i \in 1..Len(contour) |->
        HatchLine(contour[i], contour[(i % Len(contour)) + 1],
                  parameters.scan_speed, parameters.power_level,
                  layer_index, TRUE)]

\* for contour in contours of generate_contours
RECURSIVE ContoursLoop(_, _, _)
ContoursLoop(contours, parameters, layer_index) ==
    IF contours = <<>> THEN <<>>
    ELSE (IF Len(Head(contours)) < 2 THEN <<>>
          ELSE ContourLines(Head(contours), parameters, layer_index))
         \o ContoursLoop(Tail(contours), parameters, layer_index)

\* HatchingPlugin.generate_contours
generate_contours(contours, parameters, layer_index) ==
    IF ~parameters.enable_contours \/ parameters.contour_count = 0 THEN <<>>
    ELSE ContoursLoop(contours, parameters, layer_index)

SqDist(p, q) ==
    (p[1] - q[1]) * (p[1] - q[1]) + (p[2] - q[2]) * (p[2] - q[2])

\* np.argmin over the unvisited entries: the first index of the least value.
ArgMin(d, unvisited) ==
    CHOOSE i \in unvisited :
        \A j \in unvisited : d[i] < d[j] \/ (d[i] = d[j] /\ i <= j)

\* A flip that forgets the line's speed.
FlipLineLosingSpeed(line) ==
    HatchLine(line.end, line.start, 0, line.power, line.layer_index,
              line.is_contour)

\* The flipped copy optimize_scan_path makes of a line.
FlipLine(line) ==
    HatchLine(line.end, line.start, line.speed, line.power, line.layer_index,
              line.is_contour)

\* for _ in range(n) of optimize_scan_path; remaining counts the iterations
\* still to run.
RECURSIVE OptimizeLoop(_, _, _, _, _)
OptimizeLoop(hatch_lines, remaining, visited, current_pos, optimized) ==
    IF remaining = 0 THEN optimized
    ELSE LET unvisited == (1..Len(hatch_lines)) \ visited
             ds == [i \in 1..Len(hatch_lines) |->
                        SqDist(hatch_lines[i].start, current_pos)]
             de == [i \in 1..Len(hatch_lines) |->
                        SqDist(hatch_lines[i].end, current_pos)]
             best_start_idx == ArgMin(ds, unvisited)
             best_end_idx == ArgMin(de, unvisited)
             flip == ~(ds[best_start_idx] <= de[best_end_idx])
             best_idx == IF flip THEN best_end_idx ELSE best_start_idx
             line == IF flip THEN FlipLine(hatch_lines[best_idx])
                     ELSE hatch_lines[best_idx]
         IN  OptimizeLoop(hatch_lines, remaining - 1, visited \cup {best_idx},
                          line.end, Append(optimized, line))

\* A walk whose pen starts at the end point of the first line.
optimize_scan_path_from_end(hatch_lines) ==
    IF hatch_lines = <<>> THEN <<>>
    ELSE OptimizeLoop(hatch_lines, Len(hatch_lines), {}, hatch_lines[1].end,
                      <<>>)

\* HatchingPlugin.optimize_scan_path
optimize_scan_path(hatch_lines) ==
    IF hatch_lines = <<>> THEN <<>>
    ELSE OptimizeLoop(hatch_lines, Len(hatch_lines), {}, hatch_lines[1].start,
                      <<>>)

MinOf(S) == CHOOSE m \in S : \A x \in S : m <= x
MaxOf(S) == CHOOSE m \in S : \A x \in S : m >= x

\* The bounds of a ring of points: the ring itself when it is an
\* axis-aligned rectangle.
BoundsOf(contour) ==
    LET xs == { contour[i][1] : i \in 1..Len(contour) }
        ys == { contour[i][2] : i \in 1..Len(contour) }
    IN  <<MinOf(xs), MinOf(ys), MaxOf(xs), MaxOf(ys)>>

HasThreePoints(hole) == Len(hole) >= 3

\* utils.create_polygon_from_contours: the first contour is the exterior,
\* the others with 3 points or more are holes.
create_polygon_from_contours(contours) ==
    IF contours = <<>> \/ Len(contours[1]) < 3 THEN None
    ELSE LET valid_holes == SelectSeq(Tail(contours), HasThreePoints)
         IN  << [exterior |-> BoundsOf(contours[1]),
                 holes |-> [i \in 1..Len(valid_holes) |-> BoundsOf(valid_holes[i])]] >>

Grow(b, by) == <<b[1] - by, b[2] - by, b[3] + by, b[4] + by>>

Covers(a, b) == a[1] <= b[1] /\ a[2] <= b[2] /\ a[3] >= b[3] /\ a[4] >= b[4]

\* utils.offset_polygon: polygon.buffer(-offset) with mitred corners moves
\* the exterior inwards and every hole outwards; nothing is left when the
\* exterior closes up or a hole swallows it.
offset_polygon(polygon, offset) ==
    LET exterior == Grow(polygon.exterior, -offset)
        holes == [i \in 1..Len(polygon.holes) |-> Grow(polygon.holes[i], offset)]
    IN  IF \/ exterior[1] >= exterior[3]
           \/ exterior[2] >= exterior[4]
           \/ \E i \in 1..Len(holes) : Covers(holes[i], exterior)
        THEN None
        ELSE << [exterior |-> exterior, holes |-> holes] >>

\* Rotation of a point about center, counter-clockwise by deg.
RotateAbout(p, center, deg) ==
    LET dx == p[1] - center[1]
        dy == p[2] - center[2]
    IN  <<dx * Cos(deg) - dy * Sin(deg) + center[1],
          dx * Sin(deg) + dy * Cos(deg) + center[2]>>

RotateBounds(b, center, deg) ==
    BoundsOf(<<RotateAbout(<<b[1], b[2]>>, center, deg),
               RotateAbout(<<b[3], b[4]>>, center, deg)>>)

\* shapely.affinity.rotate(polygon, deg, origin)
shapely_rotate(polygon, deg, origin) ==
    [exterior |-> RotateBounds(polygon.exterior, origin, deg),
     holes |-> [i \in 1..Len(polygon.holes) |->
                    RotateBounds(polygon.holes[i], origin, deg)]]

\* np.arange(start, stop, step) with stop = last: the values start,
\* start + step, ... below last.
ArangeBelow(start, last, step) ==
    IF start >= last THEN <<>>
    ELSE [k \in 1..((last - 1 - start) \div step + 1) |-> start + (k - 1) * step]

\* np.arange(start, stop, step) for stop = last + 1e-10 (mm): the values
\* start, start + step, ... that do not exceed last.
Arange(start, last, step) ==
    IF start > last THEN <<>>
    ELSE [k \in 1..((last - start) \div step + 1) |-> start + (k - 1) * step]

\* The parts of the scan line at height y that lie in the polygon, from
\* left to right, starting at x: the line is cut by the holes whose interior
\* it crosses.
RECURSIVE ScanLineParts(_, _, _, _)
ScanLineParts(polygon, y, x, holes) ==
    LET crossed == { h \in holes : h[2] < y /\ y < h[4] /\ h[1] >= x }
    IN  IF crossed = {}
        THEN << <<<<x, y>>, <<polygon.exterior[3], y>>>> >>
        ELSE LET h == CHOOSE h \in crossed : \A g \in crossed : h[1] <= g[1]
             IN  << <<<<x, y>>, <<h[1], y>>>> >>
                 \o ScanLineParts(polygon, y, h[3], holes \ {h})

\* multi_line.intersection(rotated_polygon), the segments listed scan line
\* by scan line.
RECURSIVE ScanLinesIntersection(_, _)
ScanLinesIntersection(polygon, ys) ==
    IF ys = <<>> THEN <<>>
    ELSE ScanLineParts(polygon, Head(ys), polygon.exterior[1],
                       { polygon.holes[i] : i \in 1..Len(polygon.holes) })
         \o ScanLinesIntersection(polygon, Tail(ys))

\* get_sort_key of sort_segments_for_scanning, doubled
get_sort_key(seg) == seg[1][2] + seg[2][2]

\* One step of the stable sorted(segments, key=get_sort_key).
InsertBySortKey(sorted, seg) ==
    LET k == Cardinality({ i \in 1..Len(sorted) :
                               get_sort_key(sorted[i]) <= get_sort_key(seg) })
    IN  SubSeq(sorted, 1, k) \o <<seg>> \o SubSeq(sorted, k + 1, Len(sorted))

RECURSIVE SortedBySortKey(_)
SortedBySortKey(segments) ==
    IF segments = <<>> THEN <<>>
    ELSE InsertBySortKey(SortedBySortKey(SubSeq(segments, 1, Len(segments) - 1)),
                         segments[Len(segments)])

\* utils.sort_segments_for_scanning
sort_segments_for_scanning(segments, bidirectional) ==
    IF segments = <<>> THEN <<>>
    ELSE LET sorted_segments == SortedBySortKey(segments)
         IN  IF bidirectional
             THEN [i \in 1..Len(sorted_segments) |->
                      IF (i - 1) % 2 = 1
                      THEN <<sorted_segments[i][2], sorted_segments[i][1]>>
                      ELSE sorted_segments[i]]
             ELSE sorted_segments

\* LineHatchingPlugin._generate_parallel_lines
generate_parallel_lines(polygon, spacing, angle, parameters, layer_index) ==
    LET bounds == polygon.exterior
        center == <<(bounds[1] + bounds[3]) \div 2, (bounds[2] + bounds[4]) \div 2>>
        rotated_polygon == shapely_rotate(polygon, -angle, center)
        rot_bounds == rotated_polygon.exterior
        ys == Arange(rot_bounds[2] + spacing \div 2, rot_bounds[4], spacing)
        intersection == ScanLinesIntersection(rotated_polygon, ys)
        segments == IF parameters.bidirectional
                    THEN sort_segments_for_scanning(intersection, TRUE)
                    ELSE intersection
    IN  [i \in 1..Len(segments) |->
            HatchLine(RotateAbout(segments[i][1], center, angle),
                      RotateAbout(segments[i][2], center, angle),
                      parameters.scan_speed, parameters.power_level,
                      layer_index, FALSE)]

\* generate_hatching from "Generate contour lines if enabled" on.
HatchPolygon(polygon, contours, parameters, layer_index) ==
    LET contour_lines ==
            IF parameters.enable_contours
            THEN generate_contours(contours, parameters, layer_index)
            ELSE <<>>
        effective_angle ==
            get_effective_angle(parameters.hatch_angle, layer_index,
                                parameters.layer_rotation)
        infill_lines ==
            generate_parallel_lines(polygon, parameters.hatch_spacing,
                                    effective_angle, parameters, layer_index)
        hatch_lines == contour_lines \o infill_lines
    IN  IF parameters.optimize_path /\ Len(hatch_lines) > 1
        THEN optimize_scan_path(hatch_lines)
        ELSE hatch_lines

\* LineHatchingPlugin.generate_hatching
generate_hatching(contours, parameters, layer_index) ==
    IF contours = <<>> \/ Len(contours[1]) < 3 THEN <<>>
    ELSE IF ~validate_parameters(parameters) THEN <<>>
    ELSE LET polygon == create_polygon_from_contours(contours)
         IN  IF polygon = None THEN <<>>
             ELSE IF parameters.border_offset > 0
             THEN LET offset_poly == offset_polygon(polygon[1],
                                                    parameters.border_offset)
                  IN  IF offset_poly # None
                      THEN HatchPolygon(offset_poly[1], contours, parameters,
                                        layer_index)
                      ELSE <<>>
             ELSE HatchPolygon(polygon[1], contours, parameters, layer_index)

\* contour_area of group_contours_into_islands, doubled (shoelace formula)
contour_area(contour) ==
    LET n == Len(contour)
        term(i) == contour[i][1] * contour[(i % n) + 1][2]
                   - contour[(i % n) + 1][1] * contour[i][2]
        RECURSIVE Sum(_)
        Sum(i) == IF i = 0 THEN 0 ELSE term(i) + Sum(i - 1)
    IN  Sum(n)

\* One step of contours_with_area.sort(key=abs(area), reverse=True): stable,
\* larger areas first.
InsertByArea(sorted, contour) ==
    LET k == Cardinality({ i \in 1..Len(sorted) :
                 Abs(contour_area(sorted[i])) >= Abs(contour_area(contour)) })
    IN  SubSeq(sorted, 1, k) \o <<contour>> \o SubSeq(sorted, k + 1, Len(sorted))

RECURSIVE SortedByArea(_)
SortedByArea(contours) ==
    IF contours = <<>> THEN <<>>
    ELSE InsertByArea(SortedByArea(SubSeq(contours, 1, Len(contours) - 1)),
                      contours[Len(contours)])

\* is_contour_inside: Polygon(outer).contains(Point(inner[0]))
is_contour_inside(inner, outer) ==
    /\ Len(inner) > 0
    /\ LET b == BoundsOf(outer)
       IN  /\ b[1] < inner[1][1] /\ inner[1][1] < b[3]
           /\ b[2] < inner[1][2] /\ inner[1][2] < b[4]

\* The inner loop: the unused contours inside contours_with_area[i].
RECURSIVE HolesLoop(_, _, _, _, _)
HolesLoop(sorted, i, j, island, used) ==
    IF j > Len(sorted) THEN [island |-> island, used |-> used]
    ELSE IF j \notin used /\ is_contour_inside(sorted[j], sorted[i])
    THEN HolesLoop(sorted, i, j + 1, Append(island, sorted[j]), used \cup {j})
    ELSE HolesLoop(sorted, i, j + 1, island, used)

\* The outer loop over contours_with_area.
RECURSIVE IslandsLoop(_, _, _, _)
IslandsLoop(sorted, i, islands, used) ==
    IF i > Len(sorted) THEN islands
    ELSE IF i \in used THEN IslandsLoop(sorted, i + 1, islands, used)
    ELSE LET r == HolesLoop(sorted, i, 1, <<sorted[i]>>, used \cup {i})
         IN  IslandsLoop(sorted, i + 1, Append(islands, r.island), r.used)

\* hatching_integration.group_contours_into_islands
group_contours_into_islands(contours) ==
    IF contours = <<>> THEN <<>>
    ELSE IslandsLoop(SortedByArea(contours), 1, <<>>, {})

\* for island_contours in islands of generate_hatching_for_layer
RECURSIVE HatchIslands(_, _, _)
HatchIslands(islands, hatch_params, layer_index) ==
    IF islands = <<>> THEN <<>>
    ELSE generate_hatching(Head(islands), hatch_params, layer_index)
         \o HatchIslands(Tail(islands), hatch_params, layer_index)

\* hatching_integration.generate_hatching_for_layer, with the line
\* hatching plugin the registry holds for the default strategy
generate_hatching_for_layer(segments, layer_index, hatch_params) ==
    LET contours == segments_to_contours(segments).contours
    IN  IF contours = <<>> THEN <<>>
        ELSE HatchIslands(group_contours_into_islands(contours), hatch_params,
                          layer_index)

\* "Clone hatch lines and update layer index"
CloneForLayer(hatch_lines, current_layer_idx) ==
    [k \in 1..Len(hatch_lines) |->
        HatchLine(hatch_lines[k].start, hatch_lines[k].end, hatch_lines[k].speed,
                  hatch_lines[k].power, current_layer_idx,
                  hatch_lines[k].is_contour)]

\* The entries one section adds to hatching_data: its hatching is generated
\* once, for section['start_layer'], and cloned for each of its layers.
SectionHatching(section, hatch_params) ==
    LET hatch_lines == generate_hatching_for_layer(section.segments,
                                                   section.start_layer,
                                                   hatch_params)
    IN  [current_layer_idx \in
             section.start_layer..(section.start_layer + section.layer_count - 1)
         |-> CloneForLayer(hatch_lines, current_layer_idx)]

\* for section in layer_sections: a later section's entry replaces an
\* earlier one with the same layer index.
RECURSIVE SectionsLoop(_, _, _)
SectionsLoop(layer_sections, hatch_params, hatching_data) ==
    IF layer_sections = <<>> THEN hatching_data
    ELSE SectionsLoop(Tail(layer_sections), hatch_params,
                      SectionHatching(Head(layer_sections), hatch_params)
                          @@ hatching_data)

\* hatching_integration.prepare_hatching_for_all_layers: a dictionary from
\* layer index to hatch lines.
prepare_hatching_for_all_layers(layer_sections, hatch_params) ==
    SectionsLoop(layer_sections, hatch_params, <<>>)

---------------------------------------------------------------------------
(* Inputs of the Hatching family.                                          *)

MaxSections == 2
MaxSectionLayers == 2

\* The ring of an axis-aligned rectangle, counter-clockwise.
Rectangle(b) ==
    << <<b[1], b[2]>>, <<b[3], b[2]>>, <<b[3], b[4]>>, <<b[1], b[4]>> >>

\* Outlines of layers as slicing delivers them: a square, a rectangle, a
\* square with a square hole, and two segments that close no loop.
HatchOutlines ==
    { EdgesOf(Rectangle(<<0, 0, 16, 16>>)),
      EdgesOf(Rectangle(<<0, 0, 32, 16>>)),
      EdgesOf(Rectangle(<<0, 0, 32, 32>>)) \o EdgesOf(Rectangle(<<8, 8, 24, 24>>)),
      << <<0, 0, 16, 0>>, <<16, 0, 16, 16>> >> }

\* layer_sections as the section grouping leaves them: runs[k] is the
\* outline and the number of layers of section k.
RECURSIVE MakeSections(_, _)
MakeSections(runs, start) ==
    IF runs = <<>> THEN <<>>
    ELSE LET count == Head(runs)[2]
         IN  << [start_layer |-> start, end_layer |-> start + count - 1,
                 z_start |-> 2 * start + 1,
                 z_end |-> 2 * (start + count - 1) + 1,
                 segments |-> Head(runs)[1],
                 layer_count |-> count] >>
             \o MakeSections(Tail(runs), start + count)

\* Consecutive sections have different outlines.
SectionLists ==
    { MakeSections(runs, 0) :
          runs \in { r \in UNION { [1..n -> HatchOutlines \X (1..MaxSectionLayers)] :
                                       n \in 0..MaxSections } :
                         \A k \in 1..(Len(r) - 1) : r[k][1] # r[k + 1][1] } }

\* Parameters that pass validation: both quarter-turn angles, rotations per
\* layer, border offsets that keep and that close up the outlines.
LayerParameters ==
    [hatch_spacing : {4}, hatch_angle : {0, 90}, layer_rotation : {0, 90, 180},
     border_offset : {0, 2, 16}, enable_contours : BOOLEAN, contour_count : {1},
     scan_speed : {1000}, power_level : {PerMille}, infill_density : {PerMille},
     optimize_path : BOOLEAN, bidirectional : BOOLEAN]

\* Parameters on both sides of every limit validate_parameters tests.
ValidationParameters ==
    [hatch_spacing : {-4, 0, 4}, hatch_angle : {0}, layer_rotation : {90},
     border_offset : {0}, enable_contours : {TRUE}, contour_count : {-1, 0, 1, 2},
     scan_speed : {1000}, power_level : {-1, 0, 500, PerMille, PerMille + 1},
     infill_density : {-1, 0, PerMille, PerMille + 1},
     optimize_path : {TRUE}, bidirectional : {TRUE}]

\* Contour lists handed to generate_hatching: none, one of two points, a
\* square, a square with a hole.
ContourLists ==
    { <<>>,
      << << <<0, 0>>, <<16, 0>> >> >>,
      << Rectangle(<<0, 0, 16, 16>>) >>,
      << Rectangle(<<0, 0, 32, 32>>), Rectangle(<<8, 8, 24, 24>>) >> }

InitHatch ==
    /\ \/ call \in [fn : {"prepare"}, layer_sections : SectionLists,
                    hatch_params : LayerParameters]
       \/ call \in [fn : {"generate_hatching"}, contours : ContourLists,
                    parameters : ValidationParameters \cup LayerParameters,
                    layer_index : {0, 1}]
    /\ ret = NotRun
    /\ AppConstructed

PrepareHatching ==
    /\ call.fn = "prepare"
    /\ ret = NotRun
    /\ ret' = [by |-> "prepare_hatching_for_all_layers",
               value |-> prepare_hatching_for_all_layers(call.layer_sections,
                                                         call.hatch_params)]
    /\ UNCHANGED <<call, registry, app_vars>>

GenerateHatching ==
    /\ call.fn = "generate_hatching"
    /\ ret = NotRun
    /\ ret' = [by |-> "generate_hatching",
               value |-> generate_hatching(call.contours, call.parameters,
                                           call.layer_index)]
    /\ UNCHANGED <<call, registry, app_vars>>

ValidateParameters ==
    /\ call.fn = "generate_hatching"
    /\ ret = NotRun
    /\ ret' = [by |-> "validate_parameters",
               value |-> validate_parameters(call.parameters)]
    /\ UNCHANGED <<call, registry, app_vars>>

NextHatch == PrepareHatching \/ GenerateHatching \/ ValidateParameters

SpecHatch == InitHatch /\ [][NextHatch]_vars

\* The direction of an axis-parallel line, in degrees in [0, 180).
LineAngle(line) == IF line.start[2] = line.end[2] THEN 0 ELSE 90

\* C7: every infill line stored for layer i by
\* prepare_hatching_for_all_layers runs at the effective angle
\* (hatch_angle + i * layer_rotation) mod 180 of that layer.
C7_LayerUsesItsOwnAngle ==
    (call.fn = "prepare" /\ ret # NotRun) =>
        \A i \in DOMAIN ret.value :
            \A k \in 1..Len(ret.value[i]) :
                ~ret.value[i][k].is_contour =>
                    LineAngle(ret.value[i][k])
                        = (call.hatch_params.hatch_angle
                             + i * call.hatch_params.layer_rotation) % 180

\* The same for the first layer of every section.
C7_SectionStartUsesItsAngle ==
    (call.fn = "prepare" /\ ret # NotRun) =>
        \A s \in 1..Len(call.layer_sections) :
            LET i == call.layer_sections[s].start_layer
            IN  \A k \in 1..Len(ret.value[i]) :
                    ~ret.value[i][k].is_contour =>
                        LineAngle(ret.value[i][k])
                            = (call.hatch_params.hatch_angle
                                 + i * call.hatch_params.layer_rotation) % 180

\* The four cases in which the parameters are invalid.
InvalidParameters(parameters) ==
    \/ parameters.hatch_spacing <= 0
    \/ parameters.contour_count < 0
    \/ parameters.power_level < 0 \/ parameters.power_level > PerMille
    \/ parameters.infill_density < 0 \/ parameters.infill_density > PerMille

\* C8: generate_hatching returns the empty list whenever hatch_spacing <= 0,
\* contour_count < 0, or power_level or infill_density is outside [0, 1],
\* whatever the contours and the layer; validate_parameters returns False in
\* exactly those cases.
C8_InvalidParametersGiveNoLines ==
    (call.fn = "generate_hatching" /\ ret # NotRun) =>
        /\ ret.by = "validate_parameters" =>
               ret.value = ~InvalidParameters(call.parameters)
        /\ (ret.by = "generate_hatching" /\ InvalidParameters(call.parameters)) =>
               ret.value = <<>>

\* generate_hatching was given a square and parameters whose only fault is
\* an infill_density above 1, and returned no line.
C8_Witness ==
    /\ call.fn = "generate_hatching"
    /\ ret # NotRun
    /\ ret.by = "generate_hatching"
    /\ call.contours = << Rectangle(<<0, 0, 16, 16>>) >>
    /\ call.parameters.hatch_spacing > 0
    /\ call.parameters.contour_count >= 0
    /\ call.parameters.power_level = 500
    /\ call.parameters.infill_density = PerMille + 1
    /\ ret.value = <<>>

---------------------------------------------------------------------------
(* PathOptimizer on its own.                                               *)

MaxPathLines == 3

PathPoints == { <<0, 0>>, <<4, 0>>, <<0, 4>> }

\* Two settings of the attributes a line carries.
PathAttributes ==
    { [speed |-> 1000, power |-> PerMille, layer_index |-> 0, is_contour |-> FALSE],
      [speed |-> 500, power |-> 500, layer_index |-> 3, is_contour |-> TRUE] }

PathLines ==
    { HatchLine(s, e, a.speed, a.power, a.layer_index, a.is_contour) :
          s \in PathPoints, e \in PathPoints, a \in PathAttributes }

InitPath ==
    /\ call \in [fn : {"optimize"},
                 hatch_lines : UNION { [1..n -> PathLines] : n \in 0..MaxPathLines }]
    /\ ret = NotRun
    /\ AppConstructed

OptimizeScanPath ==
    /\ call.fn = "optimize"
    /\ ret = NotRun
    /\ ret' = [by |-> "optimize_scan_path",
               value |-> optimize_scan_path(call.hatch_lines)]
    /\ UNCHANGED <<call, registry, app_vars>>

NextPath == OptimizeScanPath

SpecPath == InitPath /\ [][NextPath]_vars

\* A line up to its orientation: the unordered pair of its endpoints and its
\* attributes.
Unoriented(line) ==
    [ends |-> {line.start, line.end}, speed |-> line.speed, power |-> line.power,
     layer_index |-> line.layer_index, is_contour |-> line.is_contour]

CountOf(lines, u) == Cardinality({ i \in 1..Len(lines) : Unoriented(lines[i]) = u })

\* C9: optimize_scan_path returns as many lines as it was given, and every
\* line with its attributes, up to orientation, as often as the input has it.
C9_PathKeepsEveryLine ==
    (call.fn = "optimize" /\ ret # NotRun) =>
        /\ Len(ret.value) = Len(call.hatch_lines)
        /\ \A i \in 1..Len(call.hatch_lines) :
               CountOf(ret.value, Unoriented(call.hatch_lines[i]))
                   = CountOf(call.hatch_lines, Unoriented(call.hatch_lines[i]))

\* Three lines with different attributes came back in another order, the
\* last input line flipped.
C9_Witness ==
    /\ call.fn = "optimize"
    /\ ret # NotRun
    /\ Len(call.hatch_lines) = 3
    /\ call.hatch_lines[1].speed # call.hatch_lines[3].speed
    /\ call.hatch_lines[3].start # call.hatch_lines[3].end
    /\ ret.value[2] = FlipLine(call.hatch_lines[3])
    /\ ret.value[3] = call.hatch_lines[2]

---------------------------------------------------------------------------
(* Contour passes and border offset of LineHatchingPlugin.generate_hatching *)
(* (specification SpecHatch).                                              *)

\* generate_hatching gets as far as its contour lines: the parameters are
\* valid, the contours make a polygon and the border offset leaves one.
ReachesContours(contours, parameters) ==
    /\ contours # <<>>
    /\ Len(contours[1]) >= 3
    /\ validate_parameters(parameters)
    /\ create_polygon_from_contours(contours) # None
    /\ parameters.border_offset > 0 =>
           offset_polygon(create_polygon_from_contours(contours)[1],
                          parameters.border_offset) # None

\* The number of edges of the contours that have at least two points.
RECURSIVE EdgeCount(_)
EdgeCount(contours) ==
    IF contours = <<>> THEN 0
    ELSE (IF Len(Head(contours)) < 2 THEN 0 ELSE Len(Head(contours)))
         + EdgeCount(Tail(contours))

IsContourLine(line) == line.is_contour

\* C16: with enable_contours and contour_count = k, generate_hatching
\* returns k passes of contour lines, one line per contour edge in each
\* pass, and the passes are at different offsets, so that no two of the
\* contour lines trace the same segment; with contour_count = 0 it returns
\* no contour line.
C16_ContourPasses ==
    (/\ call.fn = "generate_hatching"
     /\ ret # NotRun
     /\ ret.by = "generate_hatching"
     /\ call.parameters.enable_contours
     /\ ReachesContours(call.contours, call.parameters)) =>
        LET contour_lines == SelectSeq(ret.value, IsContourLine)
            k == call.parameters.contour_count
        IN  /\ Len(contour_lines) = k * EdgeCount(call.contours)
            /\ \A i, j \in 1..Len(contour_lines) :
                   i # j => Unoriented(contour_lines[i]) # Unoriented(contour_lines[j])

\* The part of it for contour_count = 0 and contour_count = 1.
C16_AtMostOnePass ==
    (call.fn = "generate_hatching" /\ call.parameters.contour_count <= 1) =>
        C16_ContourPasses

\* The border offset erodes the polygon of the contours until nothing is
\* left of it.
PolygonVanishes(contours, parameters) ==
    /\ contours # <<>>
    /\ Len(contours[1]) >= 3
    /\ validate_parameters(parameters)
    /\ create_polygon_from_contours(contours) # None
    /\ parameters.border_offset > 0
    /\ offset_polygon(create_polygon_from_contours(contours)[1],
                      parameters.border_offset) = None

\* C17: when the border offset makes the polygon vanish, generate_hatching
\* returns no infill line, and with enable_contours and contour_count >= 1
\* it returns the contour lines of the input contours.
C17_ContoursSurviveVanishedInfill ==
    (/\ call.fn = "generate_hatching"
     /\ ret # NotRun
     /\ ret.by = "generate_hatching"
     /\ PolygonVanishes(call.contours, call.parameters)) =>
        /\ \A i \in 1..Len(ret.value) : ret.value[i].is_contour
        /\ (call.parameters.enable_contours /\ call.parameters.contour_count >= 1) =>
               \A line \in { generate_contours(call.contours, call.parameters,
                                               call.layer_index)[i] :
                                 i \in 1..EdgeCount(call.contours) } :
                   \E i \in 1..Len(ret.value) :
                       Unoriented(ret.value[i]) = Unoriented(line)

\* The first half of it alone: no infill line.
C17_NoInfillWhenPolygonVanishes ==
    (/\ call.fn = "generate_hatching"
     /\ ret # NotRun
     /\ ret.by = "generate_hatching"
     /\ PolygonVanishes(call.contours, call.parameters)) =>
        \A i \in 1..Len(ret.value) : ret.value[i].is_contour

\* A call in which the polygon vanishes, answered.
C17_PolygonVanished ==
    /\ call.fn = "generate_hatching"
    /\ ret # NotRun
    /\ ret.by = "generate_hatching"
    /\ PolygonVanishes(call.contours, call.parameters)
    /\ call.parameters.enable_contours

---------------------------------------------------------------------------
(* IslandGrouper on its own.  Unit of length and contours as in Hatching.  *)

MaxIslandContours == 3

\* Outlines of a layer of nested shells and of a part beside them: squares
\* one inside the other, and one apart from all of them.
IslandRectangles ==
    { <<0, 0, 64, 64>>, <<8, 8, 56, 56>>, <<16, 16, 48, 48>>,
      <<24, 24, 40, 40>>, <<72, 0, 88, 16>> }

\* Lists of distinct contours, in any order.
IslandContourLists ==
    { [i \in 1..Len(bs) |-> Rectangle(bs[i])] :
          bs \in { s \in UNION { [1..n -> IslandRectangles] :
                                     n \in 0..MaxIslandContours } :
                       \A i, j \in 1..Len(s) : s[i] = s[j] => i = j } }

InitIslands ==
    /\ call \in [fn : {"islands"}, contours : IslandContourLists]
    /\ ret = NotRun
    /\ AppConstructed

GroupContoursIntoIslands ==
    /\ call.fn = "islands"
    /\ ret = NotRun
    /\ ret' = [by |-> "group_contours_into_islands",
               value |-> group_contours_into_islands(call.contours)]
    /\ UNCHANGED <<call, registry, app_vars>>

NextIslands == GroupContoursIntoIslands

SpecIslands == InitIslands /\ [][NextIslands]_vars

\* Every point of the rectangle inner lies inside the rectangle outer.
ContourWithin(inner, outer) ==
    LET a == BoundsOf(inner)
        b == BoundsOf(outer)
    IN  b[1] < a[1] /\ b[2] < a[2] /\ a[3] < b[3] /\ a[4] < b[4]

\* C15: in every island returned, every contour after the first lies inside
\* the first, and no contour after the first lies inside another one of
\* them.
C15_IslandsHaveOneNestingLevel ==
    (call.fn = "islands" /\ ret # NotRun) =>
        \A k \in 1..Len(ret.value) :
            LET island == ret.value[k]
            IN  /\ \A j \in 2..Len(island) : ContourWithin(island[j], island[1])
                /\ \A i, j \in 2..Len(island) :
                       i # j => ~ContourWithin(island[i], island[j])

\* The first half of it alone: the holes of an island lie in its outer
\* boundary.
C15_HolesLieInOuter ==
    (call.fn = "islands" /\ ret # NotRun) =>
        \A k \in 1..Len(ret.value) :
            \A j \in 2..Len(ret.value[k]) :
                ContourWithin(ret.value[k][j], ret.value[k][1])

---------------------------------------------------------------------------
(* Export.  Units as in Hatching; the layer thickness in the same unit of  *)
(* length.  hatching_data is a function from layer indices to lists of     *)
(* hatch lines whose speed and power are set.                              *)

\* 1000.0 of "line.speed if line.speed else 1000.0"
DefaultSpeed == 1000
\* 1.0 of "line.power if line.power else 1.0"
DefaultPower == PerMille

\* The dictionary written for one line.
LineRecord(line) ==
    [start |-> [x |-> line.start[1], y |-> line.start[2]],
     end |-> [x |-> line.end[1], y |-> line.end[2]],
     speed |-> IF line.speed # 0 THEN line.speed ELSE DefaultSpeed,
     power |-> IF line.power # 0 THEN line.power ELSE DefaultPower]

IsInfillLine(line) == ~line.is_contour

LineRecords(lines) == [i \in 1..Len(lines) |-> LineRecord(lines[i])]

\* sorted(hatching_data.keys())
RECURSIVE SortedKeys(_)
SortedKeys(keys) ==
    IF keys = {} THEN <<>>
    ELSE <<MinOf(keys)>> \o SortedKeys(keys \ {MinOf(keys)})

\* hatching_integration.convert_hatching_to_obp_format
convert_hatching_to_obp_format(hatching_data, layer_thickness) ==
    LET keys == SortedKeys(DOMAIN hatching_data)
    IN  [k \in 1..Len(keys) |->
            LET layer_idx == keys[k]
                hatch_lines == hatching_data[layer_idx]
            IN  [layer_index |-> layer_idx,
                 z_height |-> layer_idx * layer_thickness,
                 thickness |-> layer_thickness,
                 contours |-> LineRecords(SelectSeq(hatch_lines, IsContourLine)),
                 infill |-> LineRecords(SelectSeq(hatch_lines, IsInfillLine))]]

MaxExportLines == 2

\* Lines with speed and power set: contour and infill lines, at their speed
\* and power or with the beam and the motion off.
ExportLines ==
    { [start |-> <<0, 0>>, end |-> <<16, 0>>, speed |-> sp[1], power |-> sp[2],
       layer_index |-> 0, is_contour |-> c] :
          sp \in { <<1000, 500>>, <<0, 500>>, <<1000, 0>> }, c \in BOOLEAN }

\* The layer indices of the dictionary: none, one layer, two layers, two
\* layers with a gap.
ExportLayers == { {}, {0}, {0, 1}, {0, 2} }

\* Hatching data of the given layers, layers without lines among them; each
\* line carries the index of its layer.
ExportData(layers) ==
    { [i \in layers |->
          [k \in 1..Len(f[i]) |-> [f[i][k] EXCEPT !.layer_index = i]]] :
      f \in [layers -> UNION { [1..n -> ExportLines] : n \in 0..MaxExportLines }] }

InitExport ==
    /\ \E layers \in ExportLayers :
           call \in [fn : {"convert"}, hatching_data : ExportData(layers),
                     layer_thickness : {100}]
    /\ ret = NotRun
    /\ AppConstructed

ConvertHatchingToObpFormat ==
    /\ call.fn = "convert"
    /\ ret = NotRun
    /\ ret' = [by |-> "convert_hatching_to_obp_format",
               value |-> convert_hatching_to_obp_format(call.hatching_data,
                                                        call.layer_thickness)]
    /\ UNCHANGED <<call, registry, app_vars>>

NextExport == ConvertHatchingToObpFormat

SpecExport == InitExport /\ [][NextExport]_vars

\* The record that carries the endpoints, speed and power of line.
CarriedRecord(line) ==
    [start |-> [x |-> line.start[1], y |-> line.start[2]],
     end |-> [x |-> line.end[1], y |-> line.end[2]],
     speed |-> line.speed, power |-> line.power]

\* How many records of the list are r; how many lines of the list, contour
\* lines or infill lines, are carried by r.
RecordCount(records, r) == Cardinality({ i \in 1..Len(records) : records[i] = r })

CarriedCount(lines, is_contour, r) ==
    Cardinality({ i \in 1..Len(lines) :
        lines[i].is_contour = is_contour /\ CarriedRecord(lines[i]) = r })

\* C18: the layer records are those of the layers of hatching_data in
\* strictly increasing layer_index order, and in each of them every
\* contour line is carried once by 'contours' and every infill line once by
\* 'infill', with its endpoints, speed and power, and nothing else is.
C18_ExportCarriesEveryLine ==
    (call.fn = "convert" /\ ret # NotRun) =>
        LET layers == ret.value
            data == call.hatching_data
        IN  /\ { layers[k].layer_index : k \in 1..Len(layers) } = DOMAIN data
            /\ \A k \in 1..(Len(layers) - 1) :
                   layers[k].layer_index < layers[k + 1].layer_index
            /\ \A k \in 1..Len(layers) :
                   LET lines == data[layers[k].layer_index]
                       records == { CarriedRecord(lines[i]) : i \in 1..Len(lines) }
                                  \cup { layers[k].contours[i] :
                                             i \in 1..Len(layers[k].contours) }
                                  \cup { layers[k].infill[i] :
                                             i \in 1..Len(layers[k].infill) }
                   IN  \A r \in records :
                           /\ RecordCount(layers[k].contours, r)
                                  = CarriedCount(lines, TRUE, r)
                           /\ RecordCount(layers[k].infill, r)
                                  = CarriedCount(lines, FALSE, r)

\* The same for hatch lines whose speed and power are not 0.
C18_ExportCarriesLinesWithBeamOn ==
    (/\ call.fn = "convert"
     /\ \A i \in DOMAIN call.hatching_data :
            \A k \in 1..Len(call.hatching_data[i]) :
                /\ call.hatching_data[i][k].speed # 0
                /\ call.hatching_data[i][k].power # 0) =>
        C18_ExportCarriesEveryLine

---------------------------------------------------------------------------
(* The application: the UI thread (MainWindow and its OpenGLWidget) and    *)
(* the worker threads (SlicingWorker, HatchingWorker).                     *)
(*                                                                         *)
(* A worker is [kind, models, input, i, pc, is_cancelled, raised, emitted]: *)
(* raised and emitted record whether a unit of its batch raised and which  *)
(* terminal signal run() emitted.  Its index in workers identifies the     *)
(* run.  The data a slicing run produces is named                          *)
(* by the run; hatching data is [layers, run]: the slicing run whose       *)
(* layers were hatched and the hatching run that did it (NoRun when the    *)
(* widget hatched them itself).  A signal a worker emits is delivered to   *)
(* its slot on the UI thread through the queue ui_events.  One slot or     *)
(* input handler runs at a time on the UI thread; the steps of run() of    *)
(* each worker thread interleave with them.                                *)

MaxRuns == 2
MaxModels == 1

\* A worker as __init__ leaves it, started.
NewWorker(kind, models, input) ==
    [kind |-> kind, models |-> models, input |-> input, i |-> 0,
     pc |-> "loop", is_cancelled |-> FALSE, raised |-> FALSE,
     emitted |-> "none"]

\* The state the UI thread's handlers read and write.
UI ==
    [workers |-> workers, main_window |-> main_window, widget |-> widget,
     published |-> published]

SetUI(s) ==
    /\ workers' = s.workers
    /\ main_window' = s.main_window
    /\ widget' = s.widget
    /\ published' = s.published

\* MainWindow.on_slicing_requested
on_slicing_requested(s) ==
    IF s.widget.models = 0 THEN s
    ELSE [s EXCEPT !.workers = Append(@, NewWorker("slicing", s.widget.models,
                                 [layer_thickness |-> s.widget.layer_thickness,
                                  transform |-> s.widget.transform])),
                   !.main_window.slicing_worker = Len(s.workers) + 1,
                   !.main_window.progress_dialog = "slicing"]

\* MainWindow.on_hatching_requested (hatching_params is set from
\* MainWindow.__init__ on)
on_hatching_requested(s, sliced_layers) ==
    IF sliced_layers = NoRun THEN s
    ELSE [s EXCEPT !.workers = Append(@, NewWorker("hatching",
                                 s.workers[sliced_layers].models,
                                 [layers |-> sliced_layers,
                                  params |-> s.widget.hatching_params])),
                   !.main_window.hatching_worker = Len(s.workers) + 1,
                   !.main_window.progress_dialog = "hatching"]

\* OpenGLWidget.request_hatching_generation
request_hatching_generation(s) ==
    IF s.widget.sliced_layers # NoRun
    THEN on_hatching_requested(s, s.widget.sliced_layers)
    ELSE s

\* OpenGLWidget.set_sliced_layers
set_sliced_layers(s, sliced_layers) ==
    LET s1 == [s EXCEPT !.widget.sliced_layers = sliced_layers,
                        !.published = Append(@,
                            [fn |-> "set_sliced_layers", run |-> sliced_layers,
                             cancelled |-> s.workers[sliced_layers].is_cancelled])]
    IN  IF s1.widget.hatching_enabled THEN request_hatching_generation(s1) ELSE s1

\* OpenGLWidget.set_hatching_data
set_hatching_data(s, hatching_data) ==
    [s EXCEPT !.widget.hatching_data = hatching_data,
              !.published = Append(@,
                  [fn |-> "set_hatching_data", run |-> hatching_data.run,
                   cancelled |-> s.workers[hatching_data.run].is_cancelled])]

\* if self.progress_dialog: self.progress_dialog.close()
CloseProgressDialog(s) == [s EXCEPT !.main_window.progress_dialog = "none"]

\* MainWindow.on_slicing_finished
on_slicing_finished(s, sliced_layers) ==
    set_sliced_layers(CloseProgressDialog(s), sliced_layers)

\* MainWindow.on_hatching_finished
on_hatching_finished(s, hatching_data) ==
    set_hatching_data(CloseProgressDialog(s), hatching_data)

\* OpenGLWidget.generate_all_hatching: the widget hatches its layers itself.
generate_all_hatching(s) ==
    IF s.widget.sliced_layers = NoRun THEN s
    ELSE [s EXCEPT !.widget.hatching_data =
                       [layers |-> s.widget.sliced_layers, run |-> NoRun,
                        params |-> s.widget.hatching_params]]

\* OpenGLWidget.set_hatching_parameters
set_hatching_parameters(s, hatch_params) ==
    LET s1 == [s EXCEPT !.widget.hatching_params = hatch_params]
    IN  IF s1.widget.view_mode = "slice" /\ s1.widget.hatching_enabled
        THEN generate_all_hatching(s1)
        ELSE s1

\* OpenGLWidget.set_view_mode
set_view_mode(s, mode, layer_thickness) ==
    LET s1 == [s EXCEPT !.widget.view_mode = mode,
                        !.widget.layer_thickness = layer_thickness]
    IN  IF mode = "slice" THEN on_slicing_requested(s1)
        ELSE [s1 EXCEPT !.widget.sliced_layers = NoRun,
                        !.widget.hatching_data = NoHatching]

\* OpenGLWidget.update_slice_thickness
update_slice_thickness(s, layer_thickness) ==
    LET s1 == [s EXCEPT !.widget.layer_thickness = layer_thickness]
    IN  IF s1.widget.view_mode = "slice" THEN on_slicing_requested(s1) ELSE s1

\* MainWindow.on_generate_hatching
on_generate_hatching(s, params) ==
    IF s.widget.models = 0 THEN s
    ELSE IF s.widget.view_mode # "slice" THEN s
    ELSE LET s1 == set_hatching_parameters(s, params)
             s2 == [s1 EXCEPT !.widget.hatching_enabled = TRUE]
         IN  request_hatching_generation(s2)

\* SlicingWorker.cancel / HatchingWorker.cancel
cancel(s, w) == [s EXCEPT !.workers[w].is_cancelled = TRUE]

InitApp ==
    /\ call = [fn |-> "app"]
    /\ ret = NotRun
    /\ AppConstructed

\* ---- input handled on the UI thread ----

\* MainWindow.on_load_finished: a loaded model is added to the scene.
LoadFinished ==
    /\ widget.models < MaxModels
    /\ widget' = [widget EXCEPT !.models = @ + 1]
    /\ UNCHANGED <<fn_vars, workers, ui_events, main_window, published>>

\* MainWindow.on_slice_mode_toggled(True)
SliceModeToggled ==
    /\ widget.view_mode = "layout"
    /\ Len(workers) < MaxRuns
    /\ \E layer_thickness \in Settings :
           SetUI(set_view_mode(UI, "slice", layer_thickness))
    /\ UNCHANGED <<fn_vars, ui_events>>

\* MainWindow.on_dialog_position_changed (on_dialog_scale_changed and
\* on_dialog_rotation_changed alike), with a model selected.
DialogPositionChanged ==
    /\ widget.models > 0
    /\ \E transform \in Settings :
           widget' = [widget EXCEPT !.transform = transform]
    /\ UNCHANGED <<fn_vars, workers, ui_events, main_window, published>>

\* MainWindow.on_layout_mode_toggled(True)
LayoutModeToggled ==
    /\ widget.view_mode = "slice"
    /\ SetUI(set_view_mode(UI, "layout", widget.layer_thickness))
    /\ UNCHANGED <<fn_vars, ui_events>>

\* MainWindow.on_layer_thickness_changed
LayerThicknessChanged ==
    /\ widget.view_mode = "slice"
    /\ Len(workers) < MaxRuns
    /\ \E layer_thickness \in Settings :
           SetUI(update_slice_thickness(UI, layer_thickness))
    /\ UNCHANGED <<fn_vars, ui_events>>

\* MainWindow.on_hatching_parameters_changed
HatchingParametersChanged ==
    /\ \E params \in Settings : SetUI(set_hatching_parameters(UI, params))
    /\ UNCHANGED <<fn_vars, ui_events>>

\* MainWindow.on_generate_hatching
GenerateClicked ==
    /\ Len(workers) < MaxRuns
    /\ \E params \in Settings : SetUI(on_generate_hatching(UI, params))
    /\ UNCHANGED <<fn_vars, ui_events>>

\* MainWindow.cancel_slicing, the slot of the slicing dialog's Cancel; the
\* dialog hides itself when cancelled.
CancelSlicing ==
    /\ main_window.progress_dialog = "slicing"
    /\ SetUI(CloseProgressDialog(
                 IF main_window.slicing_worker # NoRun
                 THEN cancel(UI, main_window.slicing_worker) ELSE UI))
    /\ UNCHANGED <<fn_vars, ui_events>>

\* MainWindow.cancel_hatching
CancelHatching ==
    /\ main_window.progress_dialog = "hatching"
    /\ SetUI(CloseProgressDialog(
                 IF main_window.hatching_worker # NoRun
                 THEN cancel(UI, main_window.hatching_worker) ELSE UI))
    /\ UNCHANGED <<fn_vars, ui_events>>

\* ---- slots run on the UI thread for the queued signals ----

NextSignalIs(signal, kind) ==
    /\ ui_events # <<>>
    /\ Head(ui_events).signal = signal
    /\ workers[Head(ui_events).run].kind = kind

\* MainWindow.on_slicing_progress: updates the dialog's bar and label.
SlicingProgress ==
    /\ NextSignalIs("progress", "slicing")
    /\ ui_events' = Tail(ui_events)
    /\ UNCHANGED <<fn_vars, workers, main_window, widget, published>>

\* MainWindow.on_slicing_finished
SlicingFinished ==
    /\ NextSignalIs("finished", "slicing")
    /\ widget.hatching_enabled => Len(workers) < MaxRuns
    /\ SetUI(on_slicing_finished(UI, Head(ui_events).run))
    /\ ui_events' = Tail(ui_events)
    /\ UNCHANGED fn_vars

\* MainWindow.on_slicing_error
SlicingError ==
    /\ NextSignalIs("error", "slicing")
    /\ SetUI(CloseProgressDialog(UI))
    /\ ui_events' = Tail(ui_events)
    /\ UNCHANGED fn_vars

\* MainWindow.on_hatching_progress
HatchingProgress ==
    /\ NextSignalIs("progress", "hatching")
    /\ ui_events' = Tail(ui_events)
    /\ UNCHANGED <<fn_vars, workers, main_window, widget, published>>

\* MainWindow.on_hatching_finished
HatchingFinished ==
    /\ NextSignalIs("finished", "hatching")
    /\ SetUI(on_hatching_finished(UI,
                 [layers |-> workers[Head(ui_events).run].input.layers,
                  run |-> Head(ui_events).run,
                  params |-> workers[Head(ui_events).run].input.params]))
    /\ ui_events' = Tail(ui_events)
    /\ UNCHANGED fn_vars

\* MainWindow.on_hatching_error
HatchingError ==
    /\ NextSignalIs("error", "hatching")
    /\ SetUI(CloseProgressDialog(UI))
    /\ ui_events' = Tail(ui_events)
    /\ UNCHANGED fn_vars

\* ---- steps of run() on the thread of worker w ----

Emit(signal, w) == ui_events' = Append(ui_events, [signal |-> signal, run |-> w])

\* The head of "for i, model_data in enumerate(...)": the loop is over, or
\* run() returns because the worker is cancelled, or it emits progress and
\* goes on to the next model.
RunLoop(w) ==
    /\ workers[w].pc = "loop"
    /\ IF workers[w].i = workers[w].models
       THEN /\ workers' = [workers EXCEPT ![w].pc = "final"]
            /\ UNCHANGED ui_events
       ELSE IF workers[w].is_cancelled
       THEN /\ workers' = [workers EXCEPT ![w].pc = "done"]
            /\ UNCHANGED ui_events
       ELSE /\ workers' = [workers EXCEPT ![w].pc = "model"]
            /\ Emit("progress", w)
    /\ UNCHANGED <<fn_vars, main_window, widget, published>>

\* _slice_model_standalone / prepare_hatching_for_all_layers for one model:
\* it returns, or it raises.  The model dictionaries a slicing worker reads
\* went through the slicing_requested signal: the transform it slices with
\* is the one of the request or, where the dictionaries are shared with the
\* widget, the one the widget holds now.
RunModel(w) ==
    /\ workers[w].pc = "model"
    /\ \/ /\ workers[w].kind = "slicing"
          /\ \E transform \in {workers[w].input.transform, widget.transform} :
                 workers' = [workers EXCEPT ![w].i = @ + 1, ![w].pc = "loop",
                                            ![w].input.transform = transform]
       \/ /\ workers[w].kind = "hatching"
          /\ workers' = [workers EXCEPT ![w].i = @ + 1, ![w].pc = "loop"]
       \/ workers' = [workers EXCEPT ![w].pc = "except", ![w].raised = TRUE]
    /\ UNCHANGED <<fn_vars, ui_events, main_window, widget, published>>

\* "if not self._is_cancelled:" after the loop
RunFinalCheck(w) ==
    /\ workers[w].pc = "final"
    /\ workers' = [workers EXCEPT
                       ![w].pc = IF ~workers[w].is_cancelled THEN "emit" ELSE "done"]
    /\ UNCHANGED <<fn_vars, ui_events, main_window, widget, published>>

\* finished.emit(...) delivers the signal and raises inside the try block.
RunEmitFinished_raises(w) ==
    /\ workers[w].pc = "emit"
    /\ workers' = [workers EXCEPT ![w].pc = "except", ![w].emitted = "finished"]
    /\ Emit("finished", w)
    /\ UNCHANGED <<fn_vars, main_window, widget, published>>

\* self.finished.emit(...)
RunEmitFinished(w) ==
    /\ workers[w].pc = "emit"
    /\ workers' = [workers EXCEPT ![w].pc = "done", ![w].emitted = "finished"]
    /\ Emit("finished", w)
    /\ UNCHANGED <<fn_vars, main_window, widget, published>>

\* "except Exception as e: if not self._is_cancelled:"
RunExcept(w) ==
    /\ workers[w].pc = "except"
    /\ workers' = [workers EXCEPT
                       ![w].pc = IF ~workers[w].is_cancelled THEN "emit_error"
                                 ELSE "done"]
    /\ UNCHANGED <<fn_vars, ui_events, main_window, widget, published>>

\* self.error.emit(str(e))
RunEmitError(w) ==
    /\ workers[w].pc = "emit_error"
    /\ workers' = [workers EXCEPT ![w].pc = "done", ![w].emitted = "error"]
    /\ Emit("error", w)
    /\ UNCHANGED <<fn_vars, main_window, widget, published>>

NextApp ==
    \/ LoadFinished
    \/ DialogPositionChanged
    \/ SliceModeToggled
    \/ LayoutModeToggled
    \/ LayerThicknessChanged
    \/ HatchingParametersChanged
    \/ GenerateClicked
    \/ CancelSlicing
    \/ CancelHatching
    \/ SlicingProgress
    \/ SlicingFinished
    \/ SlicingError
    \/ HatchingProgress
    \/ HatchingFinished
    \/ HatchingError
    \/ \E w \in 1..Len(workers) : RunLoop(w)
    \/ \E w \in 1..Len(workers) : RunModel(w)
    \/ \E w \in 1..Len(workers) : RunFinalCheck(w)
    \/ \E w \in 1..Len(workers) : RunEmitFinished(w)
    \/ \E w \in 1..Len(workers) : RunExcept(w)
    \/ \E w \in 1..Len(workers) : RunEmitError(w)

SpecApp == InitApp /\ [][NextApp]_vars

\* C10: set_sliced_layers / set_hatching_data is never called with the data
\* of a run on whose worker cancel() had been called before.
C10_NothingPublishedAfterCancel ==
    \A k \in 1..Len(published) : ~published[k].cancelled

\* The same for slicing runs and for hatching runs alone.
C10_NoSlicesAfterCancel ==
    \A k \in 1..Len(published) :
        published[k].fn = "set_sliced_layers" => ~published[k].cancelled

C10_NoHatchingAfterCancel ==
    \A k \in 1..Len(published) :
        published[k].fn = "set_hatching_data" => ~published[k].cancelled

\* Every run() has returned and every signal has been delivered to its slot.
NoComputationInFlight ==
    /\ ui_events = <<>>
    /\ \A w \in 1..Len(workers) : workers[w].pc = "done"

\* C11: once all runs have ended, the sliced layers the widget holds are
\* those of the most recent slicing request and the hatching data a worker
\* delivered are those of the most recent hatching request.
C11_LastRequestWins ==
    NoComputationInFlight =>
        /\ widget.sliced_layers # NoRun =>
               widget.sliced_layers = main_window.slicing_worker
        /\ widget.hatching_data.run # NoRun =>
               widget.hatching_data.run = main_window.hatching_worker

\* A state the claim excludes: two slicing runs, neither cancelled, both
\* ended, and the widget holds the layers of the earlier one.
C11_EarlierRunWon ==
    /\ NoComputationInFlight
    /\ main_window.slicing_worker = 2
    /\ widget.sliced_layers = 1
    /\ \A w \in 1..Len(workers) : ~workers[w].is_cancelled

\* ---- one run of a worker on a batch of models ----

MaxBatch == 2

\* The UI thread's state is s.
UIIs(s) ==
    /\ workers = s.workers
    /\ main_window = s.main_window
    /\ widget = s.widget
    /\ published = s.published

\* The scene holds m models and the widget is in slice mode.
SceneOf(m) ==
    [workers |-> <<>>,
     main_window |-> [slicing_worker |-> NoRun, hatching_worker |-> NoRun,
                      progress_dialog |-> "none"],
     widget |-> [WidgetConstructed EXCEPT !.models = m, !.view_mode = "slice"],
     published |-> <<>>]

\* A slicing run of m models that has delivered its layers.
SlicedSceneOf(m) ==
    LET s == on_slicing_requested(SceneOf(m))
        ended == [s.workers[1] EXCEPT !.i = m, !.pc = "done",
                                      !.emitted = "finished"]
    IN  on_slicing_finished([s EXCEPT !.workers = <<ended>>], 1)

\* A slicing worker has just been started on m models, or a hatching worker
\* on the layers of m models.
InitRun ==
    /\ call = [fn |-> "run"]
    /\ ret = NotRun
    /\ registry = RegistryImported
    /\ ui_events = <<>>
    /\ \E m \in 1..MaxBatch :
          \/ UIIs(on_slicing_requested(SceneOf(m)))
          \/ UIIs(request_hatching_generation(SlicedSceneOf(m)))

NextRun ==
    \/ CancelSlicing
    \/ CancelHatching
    \/ SlicingProgress
    \/ SlicingFinished
    \/ SlicingError
    \/ HatchingProgress
    \/ HatchingFinished
    \/ HatchingError
    \/ \E w \in 1..Len(workers) : RunLoop(w)
    \/ \E w \in 1..Len(workers) : RunModel(w)
    \/ \E w \in 1..Len(workers) : RunFinalCheck(w)
    \/ \E w \in 1..Len(workers) : RunEmitFinished(w)
    \/ \E w \in 1..Len(workers) : RunExcept(w)
    \/ \E w \in 1..Len(workers) : RunEmitError(w)

SpecRun == InitRun /\ [][NextRun]_vars

\* C12: a hatching run in which the hatching of one model raised, and on
\* which cancel() was not called, has gone on to the remaining models of
\* its batch and has delivered its results with the finished signal.
C12_BatchContinuesAfterFailure ==
    \A w \in 1..Len(workers) :
        (/\ workers[w].kind = "hatching"
         /\ workers[w].raised
         /\ workers[w].pc = "done"
         /\ ~workers[w].is_cancelled) =>
            /\ workers[w].i = workers[w].models
            /\ workers[w].emitted = "finished"

\* What the layers of slicing run r were sliced with.
SlicedWith(r) == workers[r].input

\* C19: with no computation in flight, hatching data the widget holds were
\* generated from the sliced layers it holds (or from layers sliced with
\* the same thickness and transforms) and with the hatching parameters it
\* holds.
C19_HatchingIsCurrent ==
    (NoComputationInFlight /\ widget.hatching_data # NoHatching) =>
        /\ widget.sliced_layers # NoRun
        /\ SlicedWith(widget.hatching_data.layers) = SlicedWith(widget.sliced_layers)
        /\ widget.hatching_data.params = widget.hatching_params

\* C20: in slice mode with a model in the scene, a step that changes a
\* transform or the layer thickness starts a slicing run.
C20_ChangeRequestsSlicing ==
    [][(/\ widget.view_mode = "slice"
        /\ widget.models > 0
        /\ \/ widget'.transform # widget.transform
           \/ widget'.layer_thickness # widget.layer_thickness) =>
           /\ Len(workers') = Len(workers) + 1
           /\ workers'[Len(workers')].kind = "slicing"
           /\ main_window'.slicing_worker = Len(workers')]_vars

\* The same for the layer thickness alone.
C20_ThicknessChangeRequestsSlicing ==
    [][(/\ widget.view_mode = "slice"
        /\ widget.models > 0
        /\ widget'.layer_thickness # widget.layer_thickness) =>
           /\ Len(workers') = Len(workers) + 1
           /\ workers'[Len(workers')].kind = "slicing"
           /\ main_window'.slicing_worker = Len(workers')]_vars

\* With no computation in flight, the layers the widget holds in slice mode
\* were sliced with the thickness and the transforms it holds.
C20_SlicesAreCurrent ==
    (/\ NoComputationInFlight
     /\ widget.view_mode = "slice"
     /\ widget.sliced_layers # NoRun) =>
        SlicedWith(widget.sliced_layers) =
            [layer_thickness |-> widget.layer_thickness,
             transform |-> widget.transform]

(***************************************************************************)
(* The effective hatch angle, HatchingPlugin.get_effective_angle, called   *)
(* with integer angles, layer indices and rotations of either sign.        *)
(***************************************************************************)

MaxAngle == 200
MaxAngleLayer == 3

\* Rotations per layer on both sides of zero, of a half turn and beyond.
AngleRotations == {-181, -180, -90, -67, -1, 0, 1, 67, 90, 180, 181}

InitAngle ==
    /\ call \in [fn : {"angle"}, base_angle : -MaxAngle..MaxAngle,
                 layer_index : -MaxAngleLayer..MaxAngleLayer,
                 rotation : AngleRotations]
    /\ ret = NotRun
    /\ AppConstructed

GetEffectiveAngle ==
    /\ call.fn = "angle"
    /\ ret = NotRun
    /\ ret' = [by |-> "get_effective_angle",
               value |-> get_effective_angle(call.base_angle, call.layer_index,
                                             call.rotation)]
    /\ UNCHANGED <<call, registry, app_vars>>

NextAngle == GetEffectiveAngle

SpecAngle == InitAngle /\ [][NextAngle]_vars

\* a and b differ by a whole number of half turns.
CongruentMod180(a, b) ==
    \E q \in -(MaxAngle + MaxAngleLayer * 181 + 180)..(MaxAngle + MaxAngleLayer * 181 + 180) :
        a - b = 180 * q

\* C21: get_effective_angle(base, layer, rot) is the residue of
\* base + layer * rot modulo 180: it lies in [0, 180) and differs from
\* base + layer * rot by a multiple of 180, for inputs of either sign; adding
\* a multiple of 180 to base, or to layer * rot, leaves it unchanged; and for
\* layer 0 it is base mod 180 whatever the rotation.
C21_EffectiveAngleIsResidue ==
    ret.by = "get_effective_angle" =>
        LET base == call.base_angle
            layer == call.layer_index
            rot == call.rotation
        IN  /\ ret.value \in 0..179
            /\ CongruentMod180(ret.value, base + layer * rot)
            /\ \A k \in -2..2 :
                  /\ get_effective_angle(base + 180 * k, layer, rot) = ret.value
                  /\ get_effective_angle(base, layer, rot + 180 * k) = ret.value
                  /\ get_effective_angle(base, 1, layer * rot + 180 * k) = ret.value
            /\ layer = 0 =>
                  /\ CongruentMod180(ret.value, base)
                  /\ \A r \in AngleRotations :
                         get_effective_angle(base, 0, r) = ret.value

\* A negative base angle and a negative rotation on a later layer have been
\* normalised.
C21_Witness ==
    /\ ret.by = "get_effective_angle"
    /\ call.base_angle < 0
    /\ call.rotation < 0
    /\ call.layer_index > 0
    /\ call.base_angle + call.layer_index * call.rotation < -180
    /\ ret.value > 0

(***************************************************************************)
(* Hatching of a square: LineHatchingPlugin.generate_hatching for one      *)
(* axis-aligned square contour, hatch angle 0, layer 0 and no border       *)
(* offset.  Lengths are in units of which the spacing holds an even        *)
(* number, so that half a spacing is a whole number of units.              *)
(***************************************************************************)

MaxSide == 20

\* Spacings below, at and above the sides of the squares.
SquareSpacings == {2, 4, 6, 12, 40}

\* The lower left corners of the squares.
SquareOrigins == { <<0, 0>>, <<-6, 4>> }

SquareParameters ==
    [hatch_spacing : SquareSpacings, hatch_angle : {0}, layer_rotation : {0, 90},
     border_offset : {0}, enable_contours : BOOLEAN, contour_count : {0, 1, 2},
     scan_speed : {1000}, power_level : {PerMille}, infill_density : {PerMille},
     optimize_path : BOOLEAN, bidirectional : BOOLEAN]

InitSquare ==
    /\ \E o \in SquareOrigins, L \in 1..MaxSide :
           call \in [fn : {"generate_hatching"},
                     contours : { << Rectangle(<<o[1], o[2], o[1] + L, o[2] + L>>) >> },
                     parameters : SquareParameters, layer_index : {0}]
    /\ ret = NotRun
    /\ AppConstructed

NextSquare == GenerateHatching

SpecSquare == InitSquare /\ [][NextSquare]_vars

\* The scan heights ymin + s/2 + k*s, k = 0, 1, ..., that do not exceed ymax.
ScanHeights(b, s) ==
    { y \in b[2]..b[4] : \E k \in 0..(b[4] - b[2]) : 2 * y = 2 * b[2] + s + 2 * k * s }

\* The line between two points with the attributes of the parameters, up to
\* its orientation.
UnorientedLine(p, q, parameters, layer_index, is_contour) ==
    Unoriented(HatchLine(p, q, parameters.scan_speed, parameters.power_level,
                         layer_index, is_contour))

\* C22: for a square outer contour without holes, hatch angle 0, layer 0,
\* border offset 0 and spacing s > 0, generate_hatching returns exactly one
\* infill line for every scan height y = ymin + s/2 + k*s <= ymax, spanning
\* the square from its left to its right side, and no other infill line;
\* with contours enabled (enable_contours and a contour count above 0) it
\* returns exactly 4 contour lines, the four sides of the square, and none
\* with contours disabled.
C22_SquareHatching ==
    (ret.by = "generate_hatching" /\ call.layer_index = 0) =>
        LET b == BoundsOf(call.contours[1])
            parameters == call.parameters
            infill == SelectSeq(ret.value, IsInfillLine)
            contour == SelectSeq(ret.value, IsContourLine)
            heights == ScanHeights(b, parameters.hatch_spacing)
            sides == { UnorientedLine(call.contours[1][i],
                                      call.contours[1][(i % 4) + 1],
                                      parameters, 0, TRUE) : i \in 1..4 }
        IN  /\ Len(infill) = Cardinality(heights)
            /\ \A y \in heights :
                   CountOf(infill, UnorientedLine(<<b[1], y>>, <<b[3], y>>,
                                                  parameters, 0, FALSE)) = 1
            /\ IF parameters.enable_contours /\ parameters.contour_count > 0
               THEN /\ Len(contour) = 4
                    /\ \A u \in sides : CountOf(contour, u) = 1
               ELSE contour = <<>>

\* The square of side 10 mm hatched at a spacing of 1 mm (units of half a
\* millimetre), contours on, bidirectional: 10 infill lines and 4 contour
\* lines.
C22_Witness ==
    /\ ret.by = "generate_hatching"
    /\ call.contours = << Rectangle(<<0, 0, 20, 20>>) >>
    /\ call.parameters.hatch_spacing = 2
    /\ call.parameters.enable_contours
    /\ call.parameters.contour_count = 1
    /\ call.parameters.bidirectional
    /\ Len(ret.value) = 14
    /\ ScanHeights(<<0, 0, 20, 20>>, 2) = { 2 * k - 1 : k \in 1..10 }
    /\ Len(SelectSeq(ret.value, IsInfillLine)) = 10

\* A scan height that falls on the upper side of the square has its line.
C22_LineOnUpperSide ==
    /\ ret.by = "generate_hatching"
    /\ \E i \in 1..Len(ret.value) :
           /\ ~ret.value[i].is_contour
           /\ ret.value[i].start[2] = BoundsOf(call.contours[1])[4]

(***************************************************************************)
(* The plugin registry: calls of HatchingRegistry() and of the methods of  *)
(* the objects it returns, from the definition of the class on.  call is   *)
(* the list of the calls made, each with its result; ret is the outcome of *)
(* the last one.                                                           *)
(***************************************************************************)

MaxRegistryCalls == 5

RegistryCall(fn, self, strategy, plugin_class, result) ==
    [fn |-> fn, self |-> self, strategy |-> strategy,
     plugin_class |-> plugin_class, result |-> result]

\* The objects HatchingRegistry() has returned so far.
Handles == { call[i].result : i \in { j \in 1..Len(call) : call[j].fn = "HatchingRegistry" } }

InitRegistry ==
    /\ call = <<>>
    /\ ret = NotRun
    /\ registry = RegistryDefined
    /\ WindowConstructed

\* r = HatchingRegistry()
NewRegistry ==
    /\ Len(call) < MaxRegistryCalls
    /\ registry' = HatchingRegistry_new(registry)
    /\ ret' = [by |-> "HatchingRegistry", value |-> registry'._instance]
    /\ call' = Append(call, RegistryCall("HatchingRegistry", NoObject, "", "",
                                         registry'._instance))
    /\ UNCHANGED app_vars

\* r.register(strategy, plugin_class): TypeError for a class that is no
\* HatchingPlugin.
Register ==
    /\ Len(call) < MaxRegistryCalls
    /\ \E self \in Handles, strategy \in Strategies,
          plugin_class \in PluginClasses \cup {NotAPluginClass} :
           LET raised == ~issubclass_HatchingPlugin(plugin_class)
               result == IF raised THEN "TypeError" ELSE "None"
           IN  /\ registry' = IF raised THEN registry
                              ELSE register(registry, self, strategy, plugin_class)
               /\ ret' = [by |-> "register", value |-> result]
               /\ call' = Append(call, RegistryCall("register", self, strategy,
                                                    plugin_class, result))
    /\ UNCHANGED app_vars

\* r.unregister(strategy)
Unregister ==
    /\ Len(call) < MaxRegistryCalls
    /\ \E self \in Handles, strategy \in Strategies :
           /\ registry' = unregister(registry, self, strategy)
           /\ ret' = [by |-> "unregister", value |-> "None"]
           /\ call' = Append(call, RegistryCall("unregister", self, strategy, "",
                                                "None"))
    /\ UNCHANGED app_vars

\* r.clear()
Clear ==
    /\ Len(call) < MaxRegistryCalls
    /\ \E self \in Handles :
           /\ registry' = clear(registry, self)
           /\ ret' = [by |-> "clear", value |-> "None"]
           /\ call' = Append(call, RegistryCall("clear", self, "", "", "None"))
    /\ UNCHANGED app_vars

\* r.is_registered(strategy)
IsRegistered ==
    /\ Len(call) < MaxRegistryCalls
    /\ \E self \in Handles, strategy \in Strategies :
           LET result == is_registered(registry, self, strategy)
           IN  /\ ret' = [by |-> "is_registered", value |-> result]
               /\ call' = Append(call, RegistryCall("is_registered", self,
                                                    strategy, "", result))
    /\ UNCHANGED <<registry, app_vars>>

\* r.get_plugin(strategy)
GetPlugin ==
    /\ Len(call) < MaxRegistryCalls
    /\ \E self \in Handles, strategy \in Strategies :
           LET got == get_plugin(registry, self, strategy)
           IN  /\ registry' = got.reg
               /\ ret' = [by |-> "get_plugin", value |-> got.value]
               /\ call' = Append(call, RegistryCall("get_plugin", self, strategy,
                                                    "", got.value))
    /\ UNCHANGED app_vars

NextRegistry ==
    \/ NewRegistry
    \/ Register
    \/ Unregister
    \/ Clear
    \/ IsRegistered
    \/ GetPlugin

SpecRegistry == InitRegistry /\ [][NextRegistry]_vars

\* Call i changed whether, or with which class, strategy s is registered: a
\* register of s that did not raise, an unregister of s, or a clear.
Affects(i, s) ==
    \/ call[i].fn = "register" /\ call[i].strategy = s /\ call[i].result = "None"
    \/ call[i].fn = "unregister" /\ call[i].strategy = s
    \/ call[i].fn = "clear"

\* The last of the first n calls that affects s, 0 when there is none.
LastAffecting(n, s) ==
    LET affecting == { i \in 1..n : Affects(i, s) }
    IN  IF affecting = {} THEN 0
        ELSE CHOOSE i \in affecting : \A j \in affecting : j <= i

\* Among the first n calls, the last one affecting s was a register.
RegisteredAfter(n, s) ==
    LastAffecting(n, s) # 0 /\ call[LastAffecting(n, s)].fn = "register"

\* The plugin objects get_plugin returned in the first n calls.
PluginsReturned(n) ==
    { call[i].result[1] :
          i \in { j \in 1..n : call[j].fn = "get_plugin" /\ call[j].result # None } }

\* C23: HatchingRegistry() always returns the same object; after any calls
\* of register, unregister and clear through any handle, is_registered(s)
\* is true exactly when the last call affecting s was a register,
\* get_plugin(s) then returns a new instance of the class registered last
\* for s, and None otherwise; the registry holds exactly the strategies
\* registered in this sense, so that an unregister of a strategy that is
\* not registered changes nothing.
C23_RegistryFollowsLastCall ==
    LET n == Len(call)
    IN  /\ Cardinality(Handles) <= 1
        /\ \A self \in Handles, s \in Strategies :
               /\ s \in DOMAIN registry.objects[self]._plugins <=> RegisteredAfter(n, s)
               /\ RegisteredAfter(n, s) =>
                      registry.objects[self]._plugins[s]
                          = call[LastAffecting(n, s)].plugin_class
        /\ (n > 0 /\ call[n].fn = "is_registered") =>
               (call[n].result <=> RegisteredAfter(n - 1, call[n].strategy))
        /\ (n > 0 /\ call[n].fn = "get_plugin") =>
               IF RegisteredAfter(n - 1, call[n].strategy)
               THEN /\ call[n].result # None
                    /\ call[n].result[1].class
                           = call[LastAffecting(n - 1, call[n].strategy)].plugin_class
                    /\ call[n].result[1] \notin PluginsReturned(n - 1)
               ELSE call[n].result = None

\* A strategy registered through one handle, registered again with another
\* class, and looked up through a second handle.
C23_Witness ==
    /\ Len(call) = 5
    /\ call[1].fn = "HatchingRegistry"
    /\ call[2].fn = "HatchingRegistry"
    /\ call[3].fn = "register" /\ call[3].strategy = "spiral"
    /\ call[3].plugin_class = "LineHatchingPlugin"
    /\ call[4].fn = "register" /\ call[4].strategy = "spiral"
    /\ call[4].plugin_class = "TestPlugin"
    /\ call[5].fn = "get_plugin" /\ call[5].strategy = "spiral"
    /\ call[5].result # None
    /\ call[5].result[1].class = "TestPlugin"

\* A strategy unregistered and looked up: None; a register that raised.
C23_UnregisteredGivesNone ==
    /\ Len(call) = 5
    /\ call[2].fn = "register" /\ call[2].strategy = "lines"
    /\ call[3].fn = "unregister" /\ call[3].strategy = "lines"
    /\ call[4].fn = "register" /\ call[4].result = "TypeError"
    /\ call[4].strategy = "lines"
    /\ call[5].fn = "get_plugin" /\ call[5].strategy = "lines"
    /\ call[5].result = None

(***************************************************************************)
(* The build time estimate, estimate_build_time.  A line's speed is None   *)
(* or <<v>>, v in mm/s; lengths are in mm and times in milliseconds, which *)
(* are whole numbers for the lengths and speeds drawn.                     *)
(***************************************************************************)

\* HatchLine.length, for the lines drawn: axis-parallel or a 3-4-5 triangle
HatchLineLength(line) ==
    LET dx == Abs(line.end[1] - line.start[1])
        dy == Abs(line.end[2] - line.start[2])
    IN  IF dy = 0 THEN dx
        ELSE IF dx = 0 THEN dy
        ELSE (5 * dx) \div 3

\* A test `if line.speed is not None`.
SpeedIsSet(line) == line.speed # None

\* `if line.speed and line.speed > 0`
SpeedIsPositive(line) ==
    /\ line.speed # None
    /\ line.speed[1] # 0
    /\ line.speed[1] > 0

\* for line in hatch_lines: the total after the lines, or the division by
\* zero raised on the way.
RECURSIVE LinesTime(_, _)
LinesTime(hatch_lines, total_time) ==
    IF hatch_lines = <<>> \/ total_time.raised THEN total_time
    ELSE LET line == Head(hatch_lines)
         IN  IF SpeedIsPositive(line)
             THEN IF line.speed[1] = 0
                  THEN [raised |-> TRUE, value |-> total_time.value]
                  ELSE LinesTime(Tail(hatch_lines),
                           [raised |-> FALSE,
                            value |-> total_time.value
                                + (HatchLineLength(line) * 1000)
                                      \div line.speed[1]])
             ELSE LinesTime(Tail(hatch_lines), total_time)

\* for layer_idx, hatch_lines in hatching_data.items()
RECURSIVE LayersTime(_, _, _)
LayersTime(hatching_data, keys, total_time) ==
    IF keys = <<>> THEN total_time
    ELSE LayersTime(hatching_data, Tail(keys),
                    LinesTime(hatching_data[Head(keys)], total_time))

\* estimate_build_time
estimate_build_time(hatching_data) ==
    LayersTime(hatching_data, SortedKeys(DOMAIN hatching_data),
               [raised |-> FALSE, value |-> 0])

MaxTimeLines == 2

\* Lines at a speed that is unset, negative, zero and positive, and lines of
\* other lengths.
TimeLines ==
    { [start |-> <<0, 0>>, end |-> <<16, 0>>, speed |-> v, power |-> PerMille,
       layer_index |-> 0, is_contour |-> FALSE] :
          v \in { None, <<-1000>>, <<0>>, <<1000>> } }
    \cup { [start |-> <<0, 0>>, end |-> <<3, 4>>, speed |-> <<500>>,
            power |-> PerMille, layer_index |-> 0, is_contour |-> TRUE],
           [start |-> <<8, 8>>, end |-> <<8, 8>>, speed |-> <<250>>,
            power |-> PerMille, layer_index |-> 0, is_contour |-> FALSE] }

\* Hatching data of the given layers, each with up to MaxTimeLines lines.
TimeData(layers) ==
    { [i \in layers |->
          [k \in 1..Len(f[i]) |-> [f[i][k] EXCEPT !.layer_index = i]]] :
      f \in [layers -> UNION { [1..n -> TimeLines] : n \in 0..MaxTimeLines }] }

InitBuildTime ==
    /\ \E layers \in { {}, {0}, {0, 1} } :
           call \in [fn : {"estimate"}, hatching_data : TimeData(layers)]
    /\ ret = NotRun
    /\ AppConstructed

EstimateBuildTime ==
    /\ call.fn = "estimate"
    /\ ret = NotRun
    /\ ret' = [by |-> "estimate_build_time",
               value |-> estimate_build_time(call.hatching_data)]
    /\ UNCHANGED <<call, registry, app_vars>>

NextBuildTime == EstimateBuildTime

SpecBuildTime == InitBuildTime /\ [][NextBuildTime]_vars

\* The places <<layer, k>> of the lines whose speed is greater than 0.
LinesWithSpeed(hatching_data) ==
    { p \in UNION { { <<i, k>> : k \in 1..Len(hatching_data[i]) } :
                    i \in DOMAIN hatching_data } :
          /\ hatching_data[p[1]][p[2]].speed # None
          /\ hatching_data[p[1]][p[2]].speed[1] > 0 }

\* The sum of length / speed, in milliseconds, over the lines at places.
RECURSIVE TimeOver(_, _)
TimeOver(hatching_data, places) ==
    IF places = {} THEN 0
    ELSE LET p == CHOOSE p \in places : TRUE
             line == hatching_data[p[1]][p[2]]
         IN  (HatchLineLength(line) * 1000) \div line.speed[1]
             + TimeOver(hatching_data, places \ {p})

\* C24: estimate_build_time returns the sum of length / speed over exactly
\* the lines whose speed is greater than 0; lines whose speed is 0, negative
\* or unset add nothing and raise no division error; empty hatching data
\* give 0.
C24_BuildTimeSumsLinesWithSpeed ==
    ret.by = "estimate_build_time" =>
        /\ ~ret.value.raised
        /\ ret.value.value
               = TimeOver(call.hatching_data, LinesWithSpeed(call.hatching_data))
        /\ DOMAIN call.hatching_data = {} => ret.value.value = 0

\* Two layers, one with a line at speed 0 and a line at 1000 mm/s (16 ms),
\* one with an unset speed and the diagonal at 500 mm/s (10 ms).
C24_Witness ==
    /\ ret.by = "estimate_build_time"
    /\ DOMAIN call.hatching_data = {0, 1}
    /\ Len(call.hatching_data[0]) = 2
    /\ call.hatching_data[0][1].speed = <<0>>
    /\ call.hatching_data[0][2].speed = <<1000>>
    /\ Len(call.hatching_data[1]) = 2
    /\ call.hatching_data[1][1].speed = None
    /\ call.hatching_data[1][2].speed = <<500>>
    /\ ret.value.value = 26

(***************************************************************************)
(* The transform of the background slicing pass,                           *)
(* SlicingWorker._transform_vertex, beside OpenGLWidget.transform_vertex.  *)
(***************************************************************************)

\* SlicingWorker._transform_vertex
Worker_transform_vertex(vertex, position, rotation, scale) ==
    LET v == VMul(vertex, scale)
        \* rotation in the order X, Y, Z
        rx == IF rotation[1] # 0 THEN RotateX(v, rotation[1]) ELSE v
        ry == IF rotation[2] # 0 THEN RotateY(rx, rotation[2]) ELSE rx
        rz == IF rotation[3] # 0 THEN RotateZ(ry, rotation[3]) ELSE ry
    IN  VAdd(rz, position)

\* v0_t = self._transform_vertex(v0, position, rotation, scale) of
\* SlicingWorker._slice_at_height
WorkerTransformVertex ==
    /\ call.fn = "transform"
    /\ ret = NotRun
    /\ ret' = [by |-> "worker",
               value |-> Worker_transform_vertex(call.vertex,
                                                 call.model_data.position,
                                                 call.model_data.rotation,
                                                 call.model_data.scale)]
    /\ UNCHANGED <<call, registry, app_vars>>

NextWorkerTransform == TransformVertex \/ WorkerTransformVertex

SpecWorkerTransform == InitTransform /\ [][NextWorkerTransform]_vars

\* C25: SlicingWorker._transform_vertex returns the world position
\* OpenGLWidget.transform_vertex returns, for every vertex, bounding box,
\* position, rotation and scale.
C25_WorkerMatchesWidget ==
    (call.fn = "transform" /\ ret.by = "worker") =>
        ret.value = transform_vertex(call.vertex, call.model_data)

(***************************************************************************)
(* The scan path as a greedy nearest-neighbour walk.                       *)
(***************************************************************************)

\* The orders in which n lines can be placed.
Orders(n) == { f \in [1..n -> 1..n] : \A i, j \in 1..n : f[i] = f[j] => i = j }

\* Where the pen is before the k-th line of the path is placed.
PenBefore(hatch_lines, path, k) ==
    IF k = 1 THEN hatch_lines[1].start ELSE path[k - 1].end

\* path places the lines in the given order, flipping those marked, and
\* every step of it is a greedy one: the endpoint the pen moves to first is
\* as near as any endpoint of any line not yet placed, and a line is flipped
\* exactly when its end point is strictly nearer than every start point of
\* the lines not yet placed.
IsGreedyWalk(hatch_lines, path, order, flipped) ==
    \A k \in 1..Len(hatch_lines) :
        LET pen == PenBefore(hatch_lines, path, k)
            unplaced == (1..Len(hatch_lines)) \ { order[j] : j \in 1..(k - 1) }
            line == hatch_lines[order[k]]
        IN  /\ path[k] = IF flipped[k] THEN FlipLine(line) ELSE line
            /\ \A i \in unplaced :
                   /\ SqDist(path[k].start, pen) <= SqDist(hatch_lines[i].start, pen)
                   /\ SqDist(path[k].start, pen) <= SqDist(hatch_lines[i].end, pen)
            /\ flipped[k] <=>
                   \A i \in unplaced :
                       SqDist(line.end, pen) < SqDist(hatch_lines[i].start, pen)

\* C26: optimize_scan_path is the greedy nearest-neighbour walk: the pen
\* starts at the start point of the first input line; the line placed next
\* is an unplaced line with an endpoint at the least squared distance from
\* the pen among all endpoints of unplaced lines; it is flipped only if its
\* end point is strictly nearer than the start point of every unplaced line
\* (unflipped on a tie); the pen then moves to the end of the placed line.
C26_PathIsGreedyWalk ==
    (call.fn = "optimize" /\ ret # NotRun) =>
        /\ Len(ret.value) = Len(call.hatch_lines)
        /\ \E order \in Orders(Len(call.hatch_lines)) :
               \E flipped \in [1..Len(call.hatch_lines) -> BOOLEAN] :
                   IsGreedyWalk(call.hatch_lines, ret.value, order, flipped)

\* Three lines, the second placed flipped, the third placed unflipped on a
\* tie between its start point and its end point.
C26_Witness ==
    /\ call.fn = "optimize"
    /\ ret # NotRun
    /\ Len(call.hatch_lines) = 3
    /\ ret.value[1] = call.hatch_lines[1]
    /\ \E i \in 2..3 :
           /\ ret.value[2] = FlipLine(call.hatch_lines[i])
           /\ call.hatch_lines[i].start # call.hatch_lines[i].end
           /\ ret.value[3] = call.hatch_lines[5 - i]
    /\ ret.value[3].start # ret.value[3].end
    /\ SqDist(ret.value[3].start, ret.value[2].end)
           = SqDist(ret.value[3].end, ret.value[2].end)

(***************************************************************************)
(* Triangles that cross the slicing plane.                                 *)
(***************************************************************************)

\* At least one vertex strictly above the plane and one strictly below it.
CrossesPlane ==
    /\ \E i \in 1..3 : TriangleHeights[i] > call.plane
    /\ \E i \in 1..3 : TriangleHeights[i] < call.plane

\* The third vertex lies exactly on the plane.
ThirdVertexOnPlane == \E i \in 1..3 : TriangleHeights[i] = call.plane

\* The vertices lie on one line: the triangle has no area.
Degenerate ==
    LET a == VSub(call.v1, call.v0)
        b == VSub(call.v2, call.v0)
    IN  /\ a[2] * b[3] - a[3] * b[2] = 0
        /\ a[3] * b[1] - a[1] * b[3] = 0
        /\ a[1] * b[2] - a[2] * b[1] = 0

\* C27: a triangle with a vertex strictly above the plane and a vertex
\* strictly below it yields exactly one segment, also when its third vertex
\* lies exactly on the plane, and the worker's and the widget's slicer
\* return a segment for the same triangles.
C27_CrossingTriangleGivesSegment ==
    (call.fn = "slice" /\ ret # NotRun) =>
        /\ CrossesPlane => (ret.value # None /\ Len(ret.value) = 2)
        /\ (Worker_intersect_triangle_plane(call.v0, call.v1, call.v2, call.plane) # None)
               <=> (intersect_triangle_plane(call.v0, call.v1, call.v2, call.plane) # None)

\* The worker's slicer returns a segment for every crossing triangle none
\* of whose vertices lies on the plane.
C27_WorkerGivesSegmentOffPlane ==
    (call.fn = "slice" /\ ret.by = "worker" /\ CrossesPlane /\ ~ThirdVertexOnPlane) =>
        (ret.value # None /\ Len(ret.value) = 2)

\* The worker's slicer has returned no segment for a crossing triangle
\* whose third vertex lies on the plane.
C27_WorkerDropsTriangle ==
    /\ call.fn = "slice"
    /\ ret.by = "worker"
    /\ CrossesPlane
    /\ ThirdVertexOnPlane
    /\ ~Degenerate
    /\ ret.value = None
    /\ intersect_triangle_plane(call.v0, call.v1, call.v2, call.plane) # None

(***************************************************************************)
(* Loops that share a vertex: segments_to_contours on the edges of two     *)
(* triangles, listed in any order and orientation.                         *)
(***************************************************************************)

\* Two triangles with one vertex, <<8, 8>>, in common, and two apart.
TrianglePairs ==
    { << << <<0, 0>>, <<8, 0>>, <<8, 8>> >>, << <<8, 8>>, <<16, 8>>, <<16, 16>> >> >>,
      << << <<0, 0>>, <<8, 0>>, <<8, 8>> >>, << <<16, 8>>, <<24, 8>>, <<24, 16>> >> >> }

InitLoops ==
    /\ \E pair \in TrianglePairs :
           call \in [fn : {"contours"}, polygon : {None},
                     segments : Variants(EdgesOf(pair[1]) \o EdgesOf(pair[2]))]
    /\ ret = NotRun
    /\ AppConstructed

NextLoops == SegmentsToContours

SpecLoops == InitLoops /\ [][NextLoops]_vars

\* The undirected edges a contour runs along.
EdgesUsed(contour) ==
    { EdgeKey(contour[i], contour[(i % Len(contour)) + 1]) : i \in 1..Len(contour) }

\* Some point of the segment graph is an end of more than two segments.
HasSharedVertex(segments) ==
    LET graph == BuildGraph(segments, <<>>)
    IN  \E i \in 1..Len(graph) : Len(graph[i].nbrs) > 2

\* C28: segments_to_contours terminates, and no undirected edge of the
\* segment graph is used by more than one of the contours it returns, also
\* when two loops share a vertex: no loop is returned twice and no contour
\* runs along the edges of another.
C28_ContoursShareNoEdge ==
    (call.fn = "contours" /\ ret # NotRun) =>
        \A i, j \in 1..Len(ret.value) :
            i # j => EdgesUsed(ret.value[i]) \cap EdgesUsed(ret.value[j]) = {}

\* The same for loops that share no vertex.
C28_SeparateLoopsShareNoEdge ==
    (call.fn = "contours" /\ ret # NotRun /\ ~HasSharedVertex(call.segments)) =>
        \A i, j \in 1..Len(ret.value) :
            i # j => EdgesUsed(ret.value[i]) \cap EdgesUsed(ret.value[j]) = {}

\* One loop has been returned twice.
C28_LoopReturnedTwice ==
    /\ call.fn = "contours"
    /\ ret # NotRun
    /\ \E i, j \in 1..Len(ret.value) :
           i # j /\ EdgesUsed(ret.value[i]) = EdgesUsed(ret.value[j])

(***************************************************************************)
(* The scene: the models list, the selection and what the widget holds of  *)
(* each model.  A model is named by the order in which it was loaded; an   *)
(* entry of sliced_layers is the model it was sliced from, and a key of    *)
(* hatching_data carries the model whose layers were hatched under it.     *)
(* Every model has one layer.  The slicing worker holds the widget's own   *)
(* models list (the signal passes the list object) and reads it entry by   *)
(* entry while it runs.                                                    *)
(***************************************************************************)

MaxSceneModels == 2
MaxSceneRuns == 2

\* OpenGLWidget.__init__, for the fields of the scene
SceneWidget ==
    [models |-> <<>>, selected_model_index |-> None, view_mode |-> "layout",
     sliced_layers |-> <<>>, hatching_data |-> {}, hatching_enabled |-> FALSE]

SceneState == [workers |-> workers, ui_events |-> ui_events, widget |-> widget]

SetScene(s) ==
    /\ workers' = s.workers
    /\ ui_events' = s.ui_events
    /\ widget' = s.widget

\* OpenGLWidget.add_loaded_model: the selection is left alone.
add_loaded_model(s, model) == [s EXCEPT !.widget.models = Append(@, model)]

\* OpenGLWidget.set_selected_model
set_selected_model(s, index) ==
    IF index # None /\ 0 <= index[1] /\ index[1] < Len(s.widget.models)
    THEN [s EXCEPT !.widget.selected_model_index = index]
    ELSE [s EXCEPT !.widget.selected_model_index = None]

\* list.pop(index), index counted from 0
Pop(list, index) ==
    SubSeq(list, 1, index) \o SubSeq(list, index + 2, Len(list))

\* OpenGLWidget.remove_model: sliced_layers and hatching_data are not
\* touched and no slicing is requested.
remove_model(s, index) ==
    IF 0 <= index /\ index < Len(s.widget.models)
    THEN LET s1 == [s EXCEPT !.widget.models = Pop(@, index)]
             selected == s.widget.selected_model_index
         IN  IF selected = <<index>>
             THEN [s1 EXCEPT !.widget.selected_model_index = None]
             ELSE IF selected # None /\ selected[1] > index
             THEN [s1 EXCEPT !.widget.selected_model_index = <<selected[1] - 1>>]
             ELSE s1
    ELSE s

\* MainWindow.on_slicing_requested: SlicingWorker(models, ...).start()
Scene_on_slicing_requested(s) ==
    IF s.widget.models = <<>> THEN s
    ELSE [s EXCEPT !.workers = Append(@,
              [kind |-> "slicing", pc |-> "run", i |-> 0, layers |-> <<>>])]

\* MainWindow.on_hatching_requested: HatchingWorker(sliced_layers, ...).start()
Scene_on_hatching_requested(s, sliced_layers) ==
    IF sliced_layers = <<>> THEN s
    ELSE [s EXCEPT !.workers = Append(@,
              [kind |-> "hatching", pc |-> "run", i |-> 0,
               layers |-> sliced_layers])]

\* OpenGLWidget.request_hatching_generation
Scene_request_hatching_generation(s) ==
    IF s.widget.sliced_layers # <<>>
    THEN Scene_on_hatching_requested(s, s.widget.sliced_layers)
    ELSE s

\* The keys (model_idx, layer_idx) written for a list of sliced models, each
\* with the model whose layer was hatched.
HatchingKeys(sliced_layers) ==
    { [model_idx |-> k - 1, layer_idx |-> 0, model |-> sliced_layers[k]] :
        k \in 1..Len(sliced_layers) }

\* OpenGLWidget.set_view_mode
Scene_set_view_mode(s, mode) ==
    LET s1 == [s EXCEPT !.widget.view_mode = mode]
    IN  IF mode = "slice" THEN Scene_on_slicing_requested(s1)
        ELSE [s1 EXCEPT !.widget.sliced_layers = <<>>,
                        !.widget.hatching_data = {}]

\* OpenGLWidget.set_sliced_layers, reached from MainWindow.on_slicing_finished
Scene_set_sliced_layers(s, sliced_layers) ==
    LET s1 == [s EXCEPT !.widget.sliced_layers = sliced_layers]
    IN  IF s1.widget.hatching_enabled
        THEN Scene_request_hatching_generation(s1)
        ELSE s1

\* OpenGLWidget.set_hatching_data, reached from MainWindow.on_hatching_finished
Scene_set_hatching_data(s, hatching_data) ==
    [s EXCEPT !.widget.hatching_data = hatching_data]

\* OpenGLWidget.generate_all_hatching
Scene_generate_all_hatching(s) ==
    IF s.widget.sliced_layers = <<>> THEN s
    ELSE [s EXCEPT !.widget.hatching_data = HatchingKeys(s.widget.sliced_layers)]

\* MainWindow.on_generate_hatching: set_hatching_parameters,
\* enable_hatching(True), request_hatching_generation
Scene_on_generate_hatching(s) ==
    IF s.widget.models = <<>> THEN s
    ELSE IF s.widget.view_mode # "slice" THEN s
    ELSE LET s1 == IF s.widget.hatching_enabled
                   THEN Scene_generate_all_hatching(s) ELSE s
             s2 == [s1 EXCEPT !.widget.hatching_enabled = TRUE]
         IN  Scene_request_hatching_generation(s2)

InitScene ==
    /\ call = [fn |-> "scene", loaded |-> 0]
    /\ ret = NotRun
    /\ registry = RegistryImported
    /\ workers = <<>>
    /\ ui_events = <<>>
    /\ main_window = [slicing_worker |-> NoRun, hatching_worker |-> NoRun,
                      progress_dialog |-> "none"]
    /\ widget = SceneWidget
    /\ published = <<>>

scene_fixed == <<ret, registry, main_window, published>>

\* ---- calls made on the UI thread ----

AddLoadedModel ==
    /\ call.loaded < MaxSceneModels
    /\ call' = [call EXCEPT !.loaded = @ + 1]
    /\ SetScene(add_loaded_model(SceneState, call.loaded + 1))
    /\ UNCHANGED scene_fixed

SetSelectedModel ==
    /\ \E index \in {None} \cup { <<i>> : i \in -1..MaxSceneModels } :
           SetScene(set_selected_model(SceneState, index))
    /\ UNCHANGED <<call, scene_fixed>>

RemoveModel ==
    /\ \E index \in -1..MaxSceneModels :
           SetScene(remove_model(SceneState, index))
    /\ UNCHANGED <<call, scene_fixed>>

SetViewMode ==
    /\ \E mode \in {"layout", "slice"} :
           /\ mode # widget.view_mode
           /\ mode = "slice" => Len(workers) < MaxSceneRuns
           /\ SetScene(Scene_set_view_mode(SceneState, mode))
    /\ UNCHANGED <<call, scene_fixed>>

OnGenerateHatching ==
    /\ Len(workers) < MaxSceneRuns
    /\ SetScene(Scene_on_generate_hatching(SceneState))
    /\ UNCHANGED <<call, scene_fixed>>

\* ---- SlicingWorker.run and HatchingWorker.run ----

\* One turn of "for model_idx, model in enumerate(self.models)".
SliceNextModel(w) ==
    /\ workers[w].kind = "slicing"
    /\ workers[w].pc = "run"
    /\ workers[w].i < Len(widget.models)
    /\ workers' = [workers EXCEPT ![w].i = @ + 1,
                                  ![w].layers = Append(@, widget.models[workers[w].i + 1])]
    /\ UNCHANGED <<call, scene_fixed, ui_events, widget>>

\* The list is exhausted: self.finished.emit(all_sliced_layers)
SliceEmitFinished(w) ==
    /\ workers[w].kind = "slicing"
    /\ workers[w].pc = "run"
    /\ workers[w].i >= Len(widget.models)
    /\ workers' = [workers EXCEPT ![w].pc = "done"]
    /\ ui_events' = Append(ui_events,
           [signal |-> "slicing_finished", layers |-> workers[w].layers])
    /\ UNCHANGED <<call, scene_fixed, widget>>

\* HatchingWorker.run over its list of sliced models
HatchEmitFinished(w) ==
    /\ workers[w].kind = "hatching"
    /\ workers[w].pc = "run"
    /\ workers' = [workers EXCEPT ![w].pc = "done"]
    /\ ui_events' = Append(ui_events,
           [signal |-> "hatching_finished", layers |-> workers[w].layers])
    /\ UNCHANGED <<call, scene_fixed, widget>>

\* ---- deliveries: the slot of the oldest queued signal runs ----

DeliverSlicing ==
    /\ ui_events # <<>>
    /\ Head(ui_events).signal = "slicing_finished"
    /\ LET s == Scene_set_sliced_layers(
                    [SceneState EXCEPT !.ui_events = Tail(@)],
                    Head(ui_events).layers)
       IN  /\ Len(s.workers) <= MaxSceneRuns
           /\ SetScene(s)
    /\ UNCHANGED <<call, scene_fixed>>

DeliverHatching ==
    /\ ui_events # <<>>
    /\ Head(ui_events).signal = "hatching_finished"
    /\ SetScene(Scene_set_hatching_data(
                    [SceneState EXCEPT !.ui_events = Tail(@)],
                    HatchingKeys(Head(ui_events).layers)))
    /\ UNCHANGED <<call, scene_fixed>>

NextScene ==
    \/ AddLoadedModel
    \/ SetSelectedModel
    \/ RemoveModel
    \/ SetViewMode
    \/ OnGenerateHatching
    \/ \E w \in 1..Len(workers) : SliceNextModel(w)
    \/ \E w \in 1..Len(workers) : SliceEmitFinished(w)
    \/ \E w \in 1..Len(workers) : HatchEmitFinished(w)
    \/ DeliverSlicing
    \/ DeliverHatching

SpecScene == InitScene /\ [][NextScene]_vars

\* selected_model_index is None or an index into models
SelectedIndexValid ==
    \/ widget.selected_model_index = None
    \/ /\ 0 <= widget.selected_model_index[1]
       /\ widget.selected_model_index[1] < Len(widget.models)

\* Entry k of sliced_layers and every key (k, layer) of hatching_data are of
\* the model now at models[k].
SlicesFollowModels ==
    /\ \A k \in 1..Len(widget.sliced_layers) :
           /\ k <= Len(widget.models)
           /\ widget.sliced_layers[k] = widget.models[k]
    /\ \A key \in widget.hatching_data :
           /\ key.model_idx < Len(widget.models)
           /\ key.model = widget.models[key.model_idx + 1]

\* The models whose slices or hatch lines the widget holds
ModelsHeld(wdg) ==
    { wdg.sliced_layers[k] : k \in 1..Len(wdg.sliced_layers) }
        \cup { key.model : key \in wdg.hatching_data }

\* A step that removes a model leaves nothing of it in the widget.
RemoveLeavesNothing ==
    \A k \in 1..Len(widget.models) :
        (\A j \in 1..Len(widget'.models) : widget'.models[j] # widget.models[k])
            => widget.models[k] \notin ModelsHeld(widget')

\* C29: after any sequence of add_loaded_model, remove_model,
\* set_selected_model and slicing and hatching deliveries the selected index
\* is None or valid, in slice mode the slices and hatching keys at index k
\* are of models[k], and removing a model leaves no slices or hatch lines of
\* it in the widget.
C29_SceneStaysConsistent ==
    /\ [](SelectedIndexValid
            /\ (widget.view_mode = "slice" => SlicesFollowModels))
    /\ [][RemoveLeavesNothing]_vars

\* The part of C29 about the selection holds.
C29_SelectedIndexStaysValid == SelectedIndexValid

\* A model is selected after an earlier model was removed under it.
C29_SelectionShifted ==
    /\ widget.selected_model_index = <<0>>
    /\ widget.models = <<2>>

\* One model was loaded, sliced in slice mode and removed: its slices are
\* still in the widget.
C29_RemovedModelStillSliced ==
    /\ widget.view_mode = "slice"
    /\ widget.models = <<>>
    /\ widget.sliced_layers = <<1>>

(***************************************************************************)
(* The signals of one run.  A worker of each of the four classes is        *)
(* started and no slot consumes the queue, so ui_events is the list of the *)
(* signals the run has emitted, in order.  cancel() may be called from the *)
(* UI thread between any two steps of run().  WorkerThread and             *)
(* CADLoadWorker call one function, which reports progress through a       *)
(* callback and returns or raises.                                         *)
(***************************************************************************)

MaxSignals == 4

WorkerClasses == {"worker", "cad_load", "slicing", "hatching"}

\* WorkerThread.__init__ / CADLoadWorker.__init__, started
NewFunctionWorker(kind) ==
    [NewWorker(kind, 0, [func |-> kind]) EXCEPT !.pc = "func"]

InitSignals ==
    /\ call = [fn |-> "signals"]
    /\ ret = NotRun
    /\ registry = RegistryImported
    /\ ui_events = <<>>
    /\ main_window = [slicing_worker |-> NoRun, hatching_worker |-> NoRun,
                      progress_dialog |-> "none"]
    /\ published = <<>>
    /\ \E m \in 0..MaxBatch, transform \in Settings :
          /\ widget = [WidgetConstructed EXCEPT !.models = m,
                                                !.view_mode = "slice",
                                                !.transform = transform]
          /\ \/ \E kind \in {"worker", "cad_load"} :
                    workers = <<NewFunctionWorker(kind)>>
             \/ workers = <<NewWorker("slicing", m,
                               [layer_thickness |-> DefaultSetting,
                                transform |-> DefaultSetting])>>
             \/ workers = <<NewWorker("hatching", m,
                               [layers |-> NoRun, params |-> DefaultSetting])>>

\* cancel(), called on the UI thread
Cancel(w) ==
    /\ ~workers[w].is_cancelled
    /\ SetUI(cancel(UI, w))
    /\ UNCHANGED <<fn_vars, ui_events>>

\* A progress report from inside the work: WorkerThread.report_progress and
\* the callbacks of CADLoadWorker.run and HatchingWorker.run emit only
\* while the worker is not cancelled, _slice_model_standalone emits every
\* tenth layer whether it is or not.
RunProgress(w) ==
    /\ \/ workers[w].pc = "func"
       \/ workers[w].pc = "model"
    /\ Len(ui_events) < MaxSignals
    /\ workers[w].kind = "slicing" \/ ~workers[w].is_cancelled
    /\ Emit("progress", w)
    /\ UNCHANGED <<fn_vars, workers, main_window, widget, published>>

\* self.func(*self.args, **self.kwargs) / load_cad_file_with_progress(...):
\* the call returns, or it raises.
RunFunc(w) ==
    /\ workers[w].pc = "func"
    /\ \/ workers' = [workers EXCEPT ![w].pc = "final"]
       \/ workers' = [workers EXCEPT ![w].pc = "except", ![w].raised = TRUE]
    /\ UNCHANGED <<fn_vars, ui_events, main_window, widget, published>>

\* A step of run() on the worker's thread
RunStep(w) ==
    \/ RunProgress(w)
    \/ RunFunc(w)
    \/ RunLoop(w)
    \/ RunModel(w)
    \/ RunFinalCheck(w)
    \/ RunEmitFinished(w)
    \/ RunExcept(w)
    \/ RunEmitError(w)

NextSignals ==
    \/ \E w \in 1..Len(workers) : Cancel(w)
    \/ \E w \in 1..Len(workers) : RunProgress(w)
    \/ \E w \in 1..Len(workers) : RunFunc(w)
    \/ \E w \in 1..Len(workers) : RunLoop(w)
    \/ \E w \in 1..Len(workers) : RunModel(w)
    \/ \E w \in 1..Len(workers) : RunFinalCheck(w)
    \/ \E w \in 1..Len(workers) : RunEmitFinished(w)
    \/ \E w \in 1..Len(workers) : RunExcept(w)
    \/ \E w \in 1..Len(workers) : RunEmitError(w)

\* The worker's thread keeps running, and the work it calls returns or
\* raises.
SpecSignals ==
    /\ InitSignals
    /\ [][NextSignals]_vars
    /\ WF_vars(\E w \in 1..Len(workers) : RunStep(w))

\* The places in the list of emitted signals of the terminal signals of w
TerminalSignals(w) ==
    { n \in 1..Len(ui_events) :
        /\ ui_events[n].run = w
        /\ ui_events[n].signal \in {"finished", "error"} }

SignalsInOrder(w) ==
    /\ Cardinality(TerminalSignals(w)) <= 1
    /\ \A n \in TerminalSignals(w) :
           /\ workers[w].pc = "done"
           /\ \A later \in (n + 1)..Len(ui_events) : ui_events[later].run # w
    /\ (workers[w].pc = "done" /\ ~workers[w].is_cancelled)
           => Cardinality(TerminalSignals(w)) = 1

\* C30: a run emits at most one of finished and error and nothing after
\* it; a run that has ended with cancel() never called has emitted exactly
\* one of them; and every run ends.
C30_OneTerminalSignal ==
    /\ [](\A w \in 1..Len(workers) : SignalsInOrder(w))
    /\ <>(\A w \in 1..Len(workers) : workers[w].pc = "done")

\* A run that was never cancelled has ended: it reported progress and then
\* emitted its one terminal signal.
C30_Witness ==
    /\ workers[1].pc = "done"
    /\ ~workers[1].is_cancelled
    /\ Len(ui_events) >= 2
    /\ ui_events[1].signal = "progress"
    /\ ui_events[Len(ui_events)].signal \in {"finished", "error"}

\* A cancelled run has ended without a terminal signal.
C30_CancelledRunSilent ==
    /\ workers[1].pc = "done"
    /\ workers[1].is_cancelled
    /\ TerminalSignals(1) = {}

=============================================================================
